---- MODULE Spec2Model ----
(***************************************************************************)
(* A model of the json5 library: the NaN-boxed Value / Document arenas,    *)
(* DocumentBuilder and ReflectionBuilder, the recursive-descent Parser     *)
(* and the Json5Writer text serializer.                                    *)
(*                                                                         *)
(* Text is a sequence of bytes (0..255); the character source returns -1   *)
(* at the end of the input.  A double is modelled as a decimal floating    *)
(* point number (sign, mantissa, decimal exponent), which represents every *)
(* decimal literal of up to MantDigits significant digits exactly.         *)
(***************************************************************************)
EXTENDS Integers, Sequences, FiniteSets, TLC

VARIABLES
    doc,    \* the Document the program parses into
    input,  \* the index in InputTable of the text parsed last into doc, 0 for none
    err,    \* the Error of that parse
    parses,    \* the number of parses into doc so far
    wp,     \* the WriterParams of the last ToString
    int64Cast,   \* what the build makes of an out-of-range (int64_t) conversion
    text,   \* the string the last ToString returned
    doc2,   \* a second Document: the text read back, or the text compared with
    err2,   \* the Error of the parse into doc2 or obj2
    eq,     \* the result of doc == doc2
    obj,    \* the reflected object the program writes
    objType,     \* its type
    obj2,   \* the object the text is read back into
    op,     \* the call made last
    calls,  \* the calls of a Parser on its character source and its Builder
    ncalls, \* the number of those calls made so far
    expr,   \* the expression evaluated last on a Value: receiver, argument, result
    builder, \* the DocumentBuilder a caller drives by hand
    caller, \* what that caller has handed to the builder: open collections, current value
    writer  \* the Json5Writer a caller drives by hand
vars == <<doc, input, err, parses, wp, int64Cast, text, doc2, err2, eq, obj, objType, obj2, op,
          calls, ncalls, expr, builder, caller, writer>>

-----------------------------------------------------------------------------
(* Characters *)

\* The printable ASCII characters, code 32 first.
AsciiTable ==
    << " ", "!", "\"", "#", "$", "%", "&", "'", "(", ")", "*", "+", ",", "-", ".", "/",
       "0", "1", "2", "3", "4", "5", "6", "7", "8", "9", ":", ";", "<", "=", ">", "?",
       "@", "A", "B", "C", "D", "E", "F", "G", "H", "I", "J", "K", "L", "M", "N", "O",
       "P", "Q", "R", "S", "T", "U", "V", "W", "X", "Y", "Z", "[", "\\", "]", "^", "_",
       "GRAVE", "a", "b", "c", "d", "e", "f", "g", "h", "i", "j", "k", "l", "m", "n", "o",
       "p", "q", "r", "s", "t", "u", "v", "w", "x", "y", "z", "{", "|", "}", "~" >>

\* The byte value of a character literal: Ord["a"] is 97; the control characters
\* newline, tab, carriage return, backspace and NUL go by name.
Ord == [c \in {AsciiTable[i] : i \in 1..Len(AsciiTable)} \cup {"\n", "\t", "\r", "BS", "NUL"} |->
          CASE c = "\n" -> 10
            [] c = "\t" -> 9
            [] c = "\r" -> 13
            [] c = "BS" -> 8
            [] c = "NUL" -> 0
            [] OTHER -> 31 + CHOOSE i \in 1..Len(AsciiTable) : AsciiTable[i] = c]

\* A string literal of the source, written one character per element.
Str(cs) == [i \in 1..Len(cs) |-> Ord[cs[i]]]

EndOfInput == 0 - 1

isalpha(ch) == (ch >= Ord["a"] /\ ch <= Ord["z"]) \/ (ch >= Ord["A"] /\ ch <= Ord["Z"])
isdigit(ch) == ch >= Ord["0"] /\ ch <= Ord["9"]
\* (ch > 0 && ch <= 32): the parser's notion of white space
IsSpace(ch) == ch > 0 /\ ch <= 32
\* strchr(HexChars, c) for c != 0
IsHexChar(ch) ==
    isdigit(ch) \/ (ch >= Ord["a"] /\ ch <= Ord["f"]) \/ (ch >= Ord["A"] /\ ch <= Ord["F"])
HexVal(ch) ==
    IF isdigit(ch) THEN ch - Ord["0"]
    ELSE IF ch >= Ord["a"] THEN ch - Ord["a"] + 10 ELSE ch - Ord["A"] + 10
tolower(ch) == IF ch >= Ord["A"] /\ ch <= Ord["Z"] THEN ch + 32 ELSE ch

SubSeqFrom(s, i) == SubSeq(s, i, Len(s))

RECURSIVE Pow(_, _)
Pow(b, n) ==
    CASE n = 0 -> 1
      [] n = 1 -> b
      [] OTHER -> Pow(b, n \div 2) * Pow(b, n - n \div 2)

\* n copies of the sequence s
Rep(s, n) ==
    IF n <= 0 THEN <<>> ELSE [i \in 1..n * Len(s) |-> s[((i - 1) % Len(s)) + 1]]

\* The least and the greatest element of a non-empty set of integers
Min(S) == CHOOSE x \in S : \A y \in S : x <= y
Max(S) == CHOOSE x \in S : \A y \in S : x >= y

\* The number of consecutive elements of s from position i on that satisfy P
RunLength(s, i, P(_)) ==
    IF i > Len(s) THEN 0 ELSE Min({j \in i..Len(s) + 1 : j > Len(s) \/ ~P(s[j])}) - i

\* The position of the first condition of a list that holds: the branch an
\* if / else if chain of the source takes
FirstTrue(conds) == Min({i \in 1..Len(conds) : conds[i]})

-----------------------------------------------------------------------------
(* Numbers: double, strtod, operator<<(double) and operator<<(int64_t)      *)

\* A double: k = "fin" is (-1)^neg * mant * 10^exp with mant not divisible by
\* 10 (mant = 0 has exp = 0); k = "inf" and k = "nan" carry only the sign.
MkNum(k, neg, mant, exp) == [k |-> k, neg |-> neg, mant |-> mant, exp |-> exp]

Normalize(neg, mant, exp) ==
    LET Stripped(z) == MkNum("fin", neg, mant \div Pow(10, z), exp + z)
    IN  IF mant = 0 THEN MkNum("fin", neg, 0, 0)
        ELSE Stripped(Max({z \in 0..9 : mant % Pow(10, z) = 0}))

\* A number written as an integer literal of the source
IntNum(i) == IF i < 0 THEN Normalize(TRUE, 0 - i, 0) ELSE Normalize(FALSE, i, 0)
\* NAN of <math.h>
NAN == MkNum("nan", FALSE, 0, 0)

\* operator== of double
NumEq(a, b) ==
    IF a.k = "nan" \/ b.k = "nan" THEN FALSE
    ELSE IF a.k = "fin" /\ b.k = "fin" /\ a.mant = 0 /\ b.mant = 0 THEN TRUE
    ELSE a = b

isnan(n) == n.k = "nan"
\* modf(number, &_) == 0.0: the fractional part of a finite number, and of an
\* infinity, is zero; that of a NaN is NaN
FractionIsZero(n) == n.k = "inf" \/ (n.k = "fin" /\ n.exp >= 0)

\* The decimal digits of a natural number, most significant first
DigitsOf(n) ==
    LET Digits(D) == [i \in 1..D |-> (n \div Pow(10, D - i)) % 10]
    IN  Digits(IF n >= Pow(10, 9) THEN 10 ELSE Min({k \in 1..9 : n < Pow(10, k)}))

\* The number of consecutive decimal digit characters of s from position i
DigitRun(s, i) == RunLength(s, i, isdigit)

RECURSIVE DigitsValue(_, _, _, _)
\* The value of the n digit characters of s from position i, after acc
DigitsValue(s, i, n, acc) ==
    CASE n = 0 -> acc
      [] n = 1 -> acc * 10 + (s[i] - Ord["0"])
      [] OTHER -> DigitsValue(s, i + n \div 2, n - n \div 2, DigitsValue(s, i, n \div 2, acc))

\* The significant decimal digits a double of the model carries: strtod keeps
\* the first MantDigits digits of a longer digit string and drops the rest
\* (a binary double carries 15 to 17).
MantDigits == 8

\* One pass over a digit character of s: st.i is the position, st.mant the
\* value of the digits kept and st.dropped the number of digits dropped
SignificandStep(st, s, last) ==
    CASE st.i > last -> [st EXCEPT !.done = TRUE]
      [] st.i <= last /\ st.mant >= Pow(10, MantDigits - 1) ->
           [st EXCEPT !.i = @ + 1, !.dropped = @ + 1]
      [] OTHER -> [st EXCEPT !.i = @ + 1, !.mant = @ * 10 + (s[st.i] - Ord["0"])]

RECURSIVE SignificandLoop(_, _, _)
SignificandLoop(st, s, last) ==
    IF st.done THEN st ELSE SignificandLoop(SignificandStep(st, s, last), s, last)

\* The n digit characters of s from position i read after acc: the value of
\* the digits kept, and the number of digits dropped
Significand(s, i, n, acc, dropped) ==
    SignificandLoop([i |-> i, mant |-> acc, dropped |-> dropped, done |-> FALSE], s, i + n - 1)

CharAt(s, i) == IF i >= 1 /\ i <= Len(s) THEN s[i] ELSE 0

\* Does s hold the word w (lower case) at position i, whatever the case of s?
MatchesWord(s, i, w) ==
    /\ i + Len(w) - 1 <= Len(s)
    /\ \A j \in 1..Len(w) : tolower(s[i + j - 1]) = w[j]

NonZero(ch) == ch # 0
\* The characters of s before its first zero byte
CStrPrefix(s) == SubSeq(s, 1, RunLength(s, 1, NonZero))

\* The number of hexadecimal digit characters of s from position i on
HexRun(s, i) == RunLength(s, i, IsHexChar)

RECURSIVE HexValue(_, _, _, _)
\* The value of the n hexadecimal digit characters of s from position i, after acc
HexValue(s, i, n, acc) ==
    CASE n = 0 -> acc
      [] n = 1 -> acc * 16 + HexVal(s[i])
      [] OTHER -> HexValue(s, i + n \div 2, n - n \div 2, HexValue(s, i, n \div 2, acc))

\* The subject sequence of strtod once white space is skipped: the longest
\* prefix of buff that is a decimal number, a hexadecimal integer, "inf",
\* "infinity" or "nan" (a hexadecimal fraction or binary exponent is not
\* modelled); used is the length of that prefix.
ParseSubject(buff) ==
    LET Decimal(neg, i1, nInt, hasDot, nFrac) ==
            LET after == i1 + nInt + (IF hasDot THEN 1 + nFrac ELSE 0)
                hasE == CharAt(buff, after) \in {Ord["e"], Ord["E"]}
                eSign == CharAt(buff, after + 1) \in {Ord["+"], Ord["-"]}
                eNeg == CharAt(buff, after + 1) = Ord["-"]
                eAt == IF eSign THEN after + 2 ELSE after + 1
                int == Significand(buff, i1, nInt, 0, 0)
                Exp(nExp, eVal, frac) ==
                    [used |-> (IF nExp > 0 THEN eAt + nExp ELSE after) - 1,
                     result |-> Normalize(neg, frac.mant,
                                          (IF eNeg THEN 0 - eVal ELSE eVal)
                                            + int.dropped - (nFrac - frac.dropped))]
                WithExp(nExp) ==
                    Exp(nExp, DigitsValue(buff, eAt, nExp, 0),
                        Significand(buff, i1 + nInt + 1, nFrac, int.mant, 0))
            IN  WithExp(IF hasE THEN DigitRun(buff, eAt) ELSE 0)
        Digits(neg, i1, nInt, hasDot) ==
            LET Fraction(nFrac) ==
                    IF nInt + nFrac = 0 THEN [used |-> 0, result |-> MkNum("fin", FALSE, 0, 0)]
                    ELSE Decimal(neg, i1, nInt, hasDot, nFrac)
            IN  Fraction(IF hasDot THEN DigitRun(buff, i1 + nInt + 1) ELSE 0)
        Subject(neg, i1, nInt) ==
            LET isHex == /\ CharAt(buff, i1) = Ord["0"]
                         /\ CharAt(buff, i1 + 1) \in {Ord["x"], Ord["X"]}
                         /\ HexRun(buff, i1 + 2) > 0
            IN  IF isHex
                THEN [used |-> i1 + 1 + HexRun(buff, i1 + 2),
                      result |-> Normalize(neg, HexValue(buff, i1 + 2, HexRun(buff, i1 + 2), 0), 0)]
                ELSE IF MatchesWord(buff, i1, Str(<<"i", "n", "f">>))
                THEN [used |-> IF MatchesWord(buff, i1, Str(<<"i", "n", "f", "i", "n", "i", "t", "y">>))
                               THEN i1 + 7 ELSE i1 + 2,
                      result |-> MkNum("inf", neg, 0, 0)]
                ELSE IF MatchesWord(buff, i1, Str(<<"n", "a", "n">>))
                THEN [used |-> i1 + 2, result |-> MkNum("nan", neg, 0, 0)]
                ELSE Digits(neg, i1, nInt, CharAt(buff, i1 + nInt) = Ord["."])
        Signed(neg, i1) == Subject(neg, i1, DigitRun(buff, i1))
    IN  Signed(CharAt(buff, 1) = Ord["-"],
               IF CharAt(buff, 1) \in {Ord["+"], Ord["-"]} THEN 2 ELSE 1)

\* isspace(ch) of <ctype.h>
isspace(ch) == ch = 32 \/ (ch >= 9 /\ ch <= 13)
\* The number of isspace characters of s from position i on
SpaceRun(s, i) == RunLength(s, i, isspace)

\* strtod(buff, &buffEnd) on the C string in buff (it ends at the first zero
\* byte): leading white space is skipped; used is buffEnd - buff.
strtod(buff) ==
    LET Result(ws, r) == [used |-> IF r.used = 0 THEN 0 ELSE ws + r.used, result |-> r.result]
        Skipped(cstr, ws) == Result(ws, ParseSubject(SubSeqFrom(cstr, ws + 1)))
        CString(cstr) == Skipped(cstr, SpaceRun(cstr, 1))
    IN  CString(CStrPrefix(buff))

\* The characters of a list of decimal digits
DigitChars(ds) == [i \in 1..Len(ds) |-> Ord["0"] + ds[i]]

\* A digit list without its trailing zeros (the first digit is kept)
StripZeros(ds) == SubSeq(ds, 1, Max({1} \cup {j \in 1..Len(ds) : ds[j] # 0}))

\* The significant digits of a finite non-zero number rounded to six places
\* (the default precision of std::ostream), and its decimal exponent.  A
\* decimal tie is rounded to even.
SixDigits(n) ==
    LET ds == DigitsOf(n.mant)
        D == Len(ds)
        first6 == DigitsValue(DigitChars(ds), 1, 6, 0)
        up == \/ ds[7] > 5
              \/ ds[7] = 5 /\ (D > 7 \/ first6 % 2 = 1)
        m6 == IF up THEN first6 + 1 ELSE first6
    IN  IF D <= 6 THEN [ds |-> ds, X |-> D - 1 + n.exp]
        ELSE IF m6 = 1000000 THEN [ds |-> <<1>>, X |-> D + n.exp]
        ELSE [ds |-> StripZeros(DigitsOf(m6)), X |-> D - 1 + n.exp]

\* os << number for a double, with the stream's default floatfield and precision
FormatDouble(n) ==
    LET sign == IF n.neg THEN <<Ord["-"]>> ELSE <<>>
        Format(sd, X, absX) ==
            LET expDigits == IF absX < 10 THEN <<0, absX>> ELSE DigitsOf(absX)
                Fixed(padded) ==
                    sign \o DigitChars(SubSeq(padded, 1, X + 1))
                      \o (IF Len(padded) > X + 1
                          THEN <<Ord["."]>> \o DigitChars(SubSeqFrom(padded, X + 2)) ELSE <<>>)
            IN  IF X < 0 - 4 \/ X >= 6
                THEN sign \o DigitChars(<<sd[1]>>)
                       \o (IF Len(sd) > 1 THEN <<Ord["."]>> \o DigitChars(SubSeqFrom(sd, 2))
                           ELSE <<>>)
                       \o <<Ord["e"], IF X < 0 THEN Ord["-"] ELSE Ord["+"]>> \o DigitChars(expDigits)
                ELSE IF X >= 0 THEN Fixed(sd \o Rep(<<0>>, X + 1 - Len(sd)))
                ELSE sign \o <<Ord["0"], Ord["."]>> \o DigitChars(Rep(<<0>>, absX - 1) \o sd)
        Rounded(r) == Format(r.ds, r.X, IF r.X < 0 THEN 0 - r.X ELSE r.X)
    IN  IF n.k = "inf" THEN sign \o Str(<<"i", "n", "f">>)
        ELSE IF n.k = "nan" THEN sign \o Str(<<"n", "a", "n">>)
        ELSE IF n.mant = 0 THEN sign \o <<Ord["0"]>>
        ELSE Rounded(SixDigits(n))

\* 2^63 - 1, digit by digit
Int64MaxDigits == <<9, 2, 2, 3, 3, 7, 2, 0, 3, 6, 8, 5, 4, 7, 7, 5, 8, 0, 7>>

\* a <= b for digit lists of equal length
DigitsLeq(a, b) ==
    LET differ == {j \in 1..Len(a) : a[j] # b[j]}
    IN  differ = {} \/ a[Min(differ)] < b[Min(differ)]

\* The decimal digits of the magnitude of a finite number without fraction
IntegerDigits(n) == IF n.mant = 0 THEN <<0>> ELSE DigitsOf(n.mant) \o Rep(<<0>>, n.exp)

\* Is the value of (int64_t)number defined?  (The magnitude 2^63 itself is
\* counted as out of range for either sign.)
FitsInt64(n) ==
    /\ n.k = "fin"
    /\ LET ds == IntegerDigits(n)
       IN  Len(ds) < 19 \/ (Len(ds) = 19 /\ DigitsLeq(ds, Int64MaxDigits))

\* One digit of the long division of the digit list ds by 16
DivDigits16Step(st, ds) ==
    IF st.i > Len(ds) THEN [st EXCEPT !.done = TRUE]
    ELSE [st EXCEPT !.i = @ + 1,
                    !.rem = (@ * 10 + ds[st.i]) % 16,
                    !.q = Append(@, (st.rem * 10 + ds[st.i]) \div 16)]

RECURSIVE DivDigits16Loop(_, _)
DivDigits16Loop(st, ds) == IF st.done THEN st ELSE DivDigits16Loop(DivDigits16Step(st, ds), ds)

\* Long division of a decimal digit list by 16: the quotient's digits and the remainder
DivDigits16(ds, rem, q) ==
    DivDigits16Loop([i |-> 1, rem |-> rem, q |-> q, done |-> FALSE], ds)

StripLeadingZeros(ds) ==
    SubSeqFrom(ds, Min({Len(ds)} \cup {j \in 1..Len(ds) : ds[j] # 0}))

\* One hexadecimal digit: the remainder of st.ds divided by 16
HexDigitsStep(st) ==
    LET Divided(d) ==
            [ds |-> StripLeadingZeros(d.q), hex |-> <<d.rem>> \o st.hex,
             done |-> StripLeadingZeros(d.q) = <<0>>]
    IN  Divided(DivDigits16(st.ds, 0, <<>>))

RECURSIVE HexDigitsLoop(_)
HexDigitsLoop(st) == IF st.done THEN st ELSE HexDigitsLoop(HexDigitsStep(st))

\* The hexadecimal digits (0..15) of the number with decimal digit list ds
HexDigitsOf(ds) == HexDigitsLoop([ds |-> ds, hex |-> <<>>, done |-> FALSE]).hex

\* The digit list of ds - 1, for ds > 0 (same length)
DecrementDigits(ds) ==
    LET Borrowed(k) ==
            [j \in 1..Len(ds) |-> IF j < k THEN ds[j] ELSE IF j = k THEN ds[j] - 1 ELSE 9]
    IN  Borrowed(Max({j \in 1..Len(ds) : ds[j] # 0}))

HexChars(hs) == [i \in 1..Len(hs) |-> IF hs[i] < 10 THEN Ord["0"] + hs[i] ELSE Ord["a"] + hs[i] - 10]

\* os << v for an int64_t with the given magnitude digits: decimal, or,
\* once std::hex is set on the stream, the 64-bit two's complement in hexadecimal
FormatInt64(negative, ds, hex) ==
    IF ~hex THEN (IF negative /\ ds # <<0>> THEN <<Ord["-"]>> ELSE <<>>) \o DigitChars(ds)
    ELSE IF ~negative \/ ds = <<0>> THEN HexChars(HexDigitsOf(ds))
    ELSE LET h == HexDigitsOf(StripLeadingZeros(DecrementDigits(ds)))
             full == Rep(<<0>>, 16 - Len(h)) \o h
         IN  HexChars([i \in 1..16 |-> 15 - full[i]])

\* INT64_MIN and INT64_MAX
Int64MinDigits == <<9, 2, 2, 3, 3, 7, 2, 0, 3, 6, 8, 5, 4, 7, 7, 5, 8, 0, 8>>

\* What (int64_t)number gives when the value is out of range (undefined
\* behaviour): "indefinite" is the x86-64 conversion, INT64_MIN for every
\* such input; "saturate" is the AArch64 one (NaN does not get here).
CastOutcomes == {"indefinite", "saturate"}

\* os << (int64_t)number
FormatCast(n, hex, cast) ==
    IF FitsInt64(n) THEN FormatInt64(n.neg, IntegerDigits(n), hex)
    ELSE IF cast = "indefinite" \/ n.neg THEN FormatInt64(TRUE, Int64MinDigits, hex)
    ELSE FormatInt64(FALSE, Int64MaxDigits, hex)

-----------------------------------------------------------------------------
(* json5::Value: a 64-bit word, modelled as its upper 16 bits (tag), its    *)
(* lower 48 bits (p) and, for a word that is a double, the number (num).   *)
(* A word whose upper 12 bits are not all set is a double and has tag 0.   *)

TypeNull == 65532     \* 0xFFFC
TypeFalse == 65521    \* 0xFFF1
TypeTrue == 65523     \* 0xFFF3
TypeString == 65522   \* 0xFFF2
TypeArray == 65524    \* 0xFFF4
TypeObject == 65526   \* 0xFFF6
\* the upper 16 bits of MaskNaNbits
MaskNaNbits == 65520  \* 0xFFF0
\* the upper 16 bits of the double -NaN (sign, exponent and quiet bit set)
NegNaNBits == MaskNaNbits + 8   \* 0xFFF8

NumZero == MkNum("fin", FALSE, 0, 0)
Tagged(tag, p) == [tag |-> tag, p |-> p, num |-> NumZero]

\* Value(double): the bits of the double.  The bit patterns of -infinity and
\* of a NaN with the sign bit set have all of MaskNaNbits set.
ValueOfDouble(n) ==
    IF n.k = "inf" /\ n.neg THEN Tagged(MaskNaNbits, 0)
    ELSE IF n.k = "nan" /\ n.neg THEN Tagged(NegNaNBits, 0)
    ELSE [tag |-> 0, p |-> 0, num |-> n]
\* Value(bool)
ValueOfBool(b) == Tagged(IF b THEN TypeTrue ELSE TypeFalse, 0)
\* Value(nullptr)
ValueOfNull == Tagged(TypeNull, 0)
\* Value(ValueType t, uint64_t dataIn)
ValueOfType(t, dataIn) ==
    IF t = "Object" THEN Tagged(TypeObject, dataIn)
    ELSE IF t = "Array" THEN Tagged(TypeArray, dataIn)
    ELSE IF t = "String" THEN Tagged(TypeString, dataIn)
    ELSE Tagged(TypeNull, 0)
\* Value(): value-initialization of a Value zeroes the word, the double 0.0
ValueInitialized == ValueOfDouble(NumZero)

isNull(v) == v.tag = TypeNull /\ v.p = 0
isBoolean(v) == (v.tag = TypeTrue /\ v.p = 0) \/ (v.tag = TypeFalse /\ v.p = 0)
isNumber(v) == v.tag < MaskNaNbits
isString(v) == v.tag = TypeString
isObject(v) == v.tag = TypeObject
isArray(v) == v.tag = TypeArray

type(v) ==
    IF v.tag < MaskNaNbits THEN "Number"
    ELSE IF v.tag = TypeObject THEN "Object"
    ELSE IF v.tag = TypeArray THEN "Array"
    ELSE IF v.tag = TypeString THEN "String"
    ELSE IF (v.tag = TypeTrue \/ v.tag = TypeFalse) /\ v.p = 0 THEN "Boolean"
    ELSE "Null"

\* getBool(false)
getBool(v) == v.tag = TypeTrue /\ v.p = 0
\* get<double>()
getDouble(v) == IF isNumber(v) THEN v.num ELSE NumZero
\* get<size_t>(), for the counts the builder stores
getSize(v) ==
    IF isNumber(v) /\ v.num.k = "fin" /\ ~v.num.neg /\ v.num.exp >= 0
    THEN v.num.mant * Pow(10, v.num.exp) ELSE 0

-----------------------------------------------------------------------------
(* json5::Document: the root word (the Document is a Value) and the two     *)
(* arenas.  strings_data and values_data are m_strings.data() and          *)
(* m_values.data(), the addresses of the buffers.                          *)

SizeofValue == 8

\* The address of the n-th buffer of the heap
HeapAddr(n) == 4096 * n

MkDocument(data, strings, values, sdata, vdata) ==
    [data |-> data, m_strings |-> strings, m_values |-> values,
     strings_data |-> sdata, values_data |-> vdata]

\* The 0-based index of the slot at address a of d.m_values
SlotIndex(d, a) == (a - d.values_data) \div SizeofValue
\* Is a the address of a slot of d.m_values?
IsSlotAddr(d, a) ==
    /\ a >= d.values_data
    /\ (a - d.values_data) % SizeofValue = 0
    /\ SlotIndex(d, a) < Len(d.m_values)
\* Is a the address of a byte of d.m_strings?
IsStringAddr(d, a) == a >= d.strings_data /\ a - d.strings_data < Len(d.m_strings)

\* *(const Value*)a
SlotAt(d, a) == d.m_values[SlotIndex(d, a) + 1]

RECURSIVE CStrFrom(_, _)
\* The bytes of the NUL-terminated string at 1-based position i of a buffer
CStrFrom(buf, i) ==
    IF i > Len(buf) \/ buf[i] = 0 THEN <<>> ELSE <<buf[i]>> \o CStrFrom(buf, i + 1)

\* getCStr(): the C string the payload addresses
getCStr(d, v) ==
    IF isString(v) THEN CStrFrom(d.m_strings, v.p - d.strings_data + 1) ELSE <<>>

\* Value::relink(nullptr, doc)
relinkFresh(v, d) ==
    IF isString(v) THEN [v EXCEPT !.p = d.strings_data + v.p]
    ELSE IF isObject(v) \/ isArray(v) THEN [v EXCEPT !.p = d.values_data + SizeofValue * v.p]
    ELSE v

\* Document::assignRoot(root)
assignRoot(d, root) ==
    LET d1 == [d EXCEPT !.data = root,
                        !.m_values = [i \in 1..Len(d.m_values) |-> relinkFresh(d.m_values[i], d)]]
    IN  [d1 EXCEPT !.data = relinkFresh(root, d1)]

\* payload(p): data = (data & ~MaskPayload) | p.  A negative p (a pointer
\* difference stored as uint64_t) has all of the upper 16 bits set, so the OR
\* sets every bit of the tag; the payload then stands for 2^48 + p.
Payload(v, p) == [v EXCEPT !.tag = IF p < 0 THEN 65535 ELSE @, !.p = p]

\* Value::relink(prevDoc, doc) with prevDoc # nullptr.  The difference of two
\* const Value* counts Values.
relink(v, prevDoc, d) ==
    IF isString(v)
    THEN LET v1 == Payload(v, v.p - prevDoc.strings_data)
         IN  Payload(v1, d.strings_data + v1.p)
    ELSE IF isObject(v) \/ isArray(v)
    THEN LET v1 == Payload(v, (v.p - prevDoc.values_data) \div SizeofValue)
         IN  Payload(v1, d.values_data + SizeofValue * v1.p)
    ELSE v

\* Document::assignCopy(copy), on the Document d: the members are copied
\* into d's own buffers
assignCopy(d, copy) ==
    LET d1 == [d EXCEPT !.data = copy.data, !.m_strings = copy.m_strings,
                        !.m_values = copy.m_values]
        d2 == [d1 EXCEPT !.m_values = [i \in 1..Len(d1.m_values) |-> relink(d1.m_values[i], copy, d1)]]
    IN  [d2 EXCEPT !.data = relink(d2.data, copy, d2)]

\* What m_strings = std::move(rValue.m_strings) does with the buffers: a
\* short string is copied and both strings keep their buffers; the buffer of
\* a long one is taken over, and the donor is left with its own local buffer
\* or with the buffer the receiver had
StringMoves == {"copied", "stolen", "swapped"}
\* &rValue.m_strings, the local buffer of an empty std::string of Document k
LocalAddr(k) == HeapAddr(10 + k)

\* The donor after the moves of assignRvalue: both containers are empty and
\* the vector holds no buffer
MovedFrom(d, rValue, how) ==
    [rValue EXCEPT !.m_strings = <<>>, !.m_values = <<>>, !.values_data = 0,
                   !.strings_data = CASE how = "copied" -> @
                                      [] how = "stolen" -> LocalAddr(1)
                                      [] how = "swapped" -> d.strings_data]

\* Document::assignRvalue(rValue), on the Document d: the receiver.  The
\* second loop runs over the emptied rValue.m_values.
assignRvalue(d, rValue, how) ==
    LET d1 == [d EXCEPT !.data = rValue.data, !.m_strings = rValue.m_strings,
                        !.m_values = rValue.m_values,
                        !.values_data = rValue.values_data,
                        !.strings_data = IF how = "copied" THEN @ ELSE rValue.strings_data]
    IN  [d1 EXCEPT !.m_values =
           [i \in 1..Len(d1.m_values) |-> relink(d1.m_values[i], MovedFrom(d, rValue, how), d1)]]

\* ArrayView(v): the address of the first element, and the count read from
\* the slot before it
ArrayView(d, v) ==
    LET m_value == IF isArray(v) THEN v.p + SizeofValue ELSE 0
    IN  [m_value |-> m_value,
         m_count |-> IF m_value # 0 THEN getSize(SlotAt(d, m_value - SizeofValue)) ELSE 0]

\* ObjectView(v)
ObjectView(d, v) ==
    LET m_pair == IF isObject(v) THEN v.p + SizeofValue ELSE 0
    IN  [m_pair |-> m_pair,
         m_count |-> IF m_pair # 0 THEN getSize(SlotAt(d, m_pair - SizeofValue)) \div 2 ELSE 0]

\* av.begin()[i], 0 <= i < size()
ArrayElem(d, av, i) == SlotAt(d, av.m_value + SizeofValue * i)
\* *(ov.begin() + i): KeyValuePair(m_pair[0].getCStr(), m_pair[1])
ObjectPair(d, ov, i) ==
    [first |-> getCStr(d, SlotAt(d, ov.m_pair + SizeofValue * 2 * i)),
     second |-> SlotAt(d, ov.m_pair + SizeofValue * (2 * i + 1))]
\* ArrayView::operator[](index)
ArrayViewSubscript(d, av, index) ==
    IF index < av.m_count THEN ArrayElem(d, av, index) ELSE ValueInitialized

RECURSIVE findFrom(_, _, _, _)
\* The for loop of ObjectView::find from the iterator begin() + i on
findFrom(d, ov, key, i) ==
    IF i >= ov.m_count THEN ov.m_count
    ELSE IF key = ObjectPair(d, ov, i).first THEN i
    ELSE findFrom(d, ov, key, i + 1)

\* ObjectView::find(key): the offset of the iterator from begin(), m_count
\* for end()
find(d, ov, key) == IF key # <<>> THEN findFrom(d, ov, key, 0) ELSE ov.m_count

\* ObjectView::operator[](key)
ObjectViewSubscript(d, ov, key) ==
    LET Found(iter) == IF iter # ov.m_count THEN ObjectPair(d, ov, iter).second
                       ELSE ValueInitialized
    IN  Found(find(d, ov, key))

\* Value::operator[](std::string_view key)
SubscriptKey(d, v, key) ==
    IF ~isObject(v) THEN ValueInitialized ELSE ObjectViewSubscript(d, ObjectView(d, v), key)

\* Value::operator[](size_t index)
SubscriptIndex(d, v, index) ==
    IF ~isArray(v) THEN ValueInitialized ELSE ArrayViewSubscript(d, ArrayView(d, v), index)

\* the pairs of an ObjectView in stored order
ObjectPairs(d, ov) == [i \in 1..ov.m_count |-> ObjectPair(d, ov, i - 1)]

RECURSIVE strcmp(_, _)
\* strcmp(a, b): negative, zero or positive
strcmp(a, b) ==
    IF Len(a) = 0 /\ Len(b) = 0 THEN 0
    ELSE IF Len(a) = 0 THEN 0 - 1
    ELSE IF Len(b) = 0 THEN 1
    ELSE IF a[1] # b[1] THEN a[1] - b[1]
    ELSE strcmp(Tail(a), Tail(b))

\* The permutations of 1..n
IndexPermutations(n) == {f \in [1..n -> 1..n] : \A i, j \in 1..n : i # j => f[i] # f[j]}

\* std::sort(pairs, pairs + m_count, comp) with comp(a, b) = strcmp(a.first,
\* b.first) < 0: every arrangement in which no pair precedes a pair of a
\* smaller key; the order of pairs with equal keys is unspecified.
SortOutcomes(pairs) ==
    LET n == Len(pairs)
    IN  {[i \in 1..n |-> pairs[f[i]]] : f \in
           {g \in IndexPermutations(n) :
              \A i \in 1..n - 1 : strcmp(pairs[g[i]].first, pairs[g[i + 1]].first) <= 0}}

RECURSIVE ValueEqOutcomes(_, _, _, _)
RECURSIVE PairsEqOutcomes(_, _, _, _, _)
RECURSIVE ElemsEqOutcomes(_, _, _, _, _, _)

\* Value::operator==, as the set of results it can return (the sort of
\* ObjectView::operator== leaves the order of equal keys open).  d1 and d2
\* are the Documents whose arenas the two Values address.
ValueEqOutcomes(d1, v1, d2, v2) ==
    LET t == type(v1)
    IN  IF t # type(v2) THEN {FALSE}
        ELSE IF t = "Null" THEN {TRUE}
        ELSE IF t = "Boolean" THEN {v1.tag = v2.tag}
        ELSE IF t = "Number" THEN {NumEq(v1.num, v2.num)}
        ELSE IF t = "String" THEN {getCStr(d1, v1) = getCStr(d2, v2)}
        ELSE IF t = "Array"
        THEN LET a1 == ArrayView(d1, v1)
                 a2 == ArrayView(d2, v2)
             IN  IF a1.m_count # a2.m_count THEN {FALSE}
                 ELSE ElemsEqOutcomes(d1, a1, d2, a2, 0, a1.m_count)
        ELSE LET o1 == ObjectView(d1, v1)
                 o2 == ObjectView(d2, v2)
             IN  IF o1.m_count # o2.m_count THEN {FALSE}
                 ELSE IF o1.m_count = 0 THEN {TRUE}
                 ELSE UNION {PairsEqOutcomes(d1, s1, d2, s2, 1) :
                               s1 \in SortOutcomes(ObjectPairs(d1, o1)),
                               s2 \in SortOutcomes(ObjectPairs(d2, o2))}

\* ArrayView::operator== from element i on: false at the first differing element
ElemsEqOutcomes(d1, a1, d2, a2, i, n) ==
    IF i >= n THEN {TRUE}
    ELSE LET here == ValueEqOutcomes(d1, ArrayElem(d1, a1, i), d2, ArrayElem(d2, a2, i))
         IN  (IF FALSE \in here THEN {FALSE} ELSE {})
               \cup (IF TRUE \in here THEN ElemsEqOutcomes(d1, a1, d2, a2, i + 1, n) ELSE {})

\* the positional comparison of ObjectView::operator== from pair i on
PairsEqOutcomes(d1, s1, d2, s2, i) ==
    IF i > Len(s1) THEN {TRUE}
    ELSE IF strcmp(s1[i].first, s2[i].first) # 0 THEN {FALSE}
    ELSE LET here == ValueEqOutcomes(d1, s1[i].second, d2, s2[i].second)
         IN  (IF FALSE \in here THEN {FALSE} ELSE {})
               \cup (IF TRUE \in here THEN PairsEqOutcomes(d1, s1, d2, s2, i + 1) ELSE {})

-----------------------------------------------------------------------------
(* StringBufferAddUtf8 and DocumentBuilder *)

\* StringBufferAddUtf8(s, ch): the bytes appended for the codepoint ch
Utf8Bytes(ch) ==
    IF ch <= 127 THEN <<ch>>
    ELSE IF ch <= 2047 THEN <<192 + (ch \div 64), 128 + (ch % 64)>>
    ELSE IF ch <= 65535
    THEN <<224 + (ch \div 4096), 128 + ((ch \div 64) % 64), 128 + (ch % 64)>>
    ELSE IF ch <= 2097151
    THEN <<240 + (ch \div 262144), 128 + ((ch \div 4096) % 64), 128 + ((ch \div 64) % 64),
           128 + (ch % 64)>>
    ELSE IF ch <= 67108863
    THEN <<248 + (ch \div 16777216), 128 + ((ch \div 262144) % 64),
           128 + ((ch \div 4096) % 64), 128 + ((ch \div 64) % 64), 128 + (ch % 64)>>
    ELSE <<252 + (ch \div 1073741824), 128 + ((ch \div 16777216) % 64),
           128 + ((ch \div 262144) % 64), 128 + ((ch \div 4096) % 64),
           128 + ((ch \div 64) % 64), 128 + (ch % 64)>>

\* DocumentBuilder(doc).  m_currentValue is not initialized by the
\* constructor; every path of the builder writes it before reading it.
DocumentBuilder(d) ==
    [kind |-> "DocumentBuilder", m_doc |-> d, m_currentValue |-> ValueInitialized,
     m_stack |-> <<>>, m_values |-> <<>>, m_counts |-> <<>>, rc |-> "None"]

DB_setValue(b, v) == [b EXCEPT !.m_currentValue = v, !.rc = "None"]
DB_setString(b) ==
    [b EXCEPT !.m_currentValue = ValueOfType("String", Len(b.m_doc.m_strings)), !.rc = "None"]
DB_stringBufferAdd(b, chars) == [b EXCEPT !.m_doc.m_strings = @ \o chars]
DB_stringBufferEnd(b) == [b EXCEPT !.m_doc.m_strings = Append(@, 0)]
DB_push(b, t) ==
    [b EXCEPT !.m_stack = Append(@, ValueOfType(t, 0)), !.m_counts = Append(@, 0), !.rc = "None"]

\* DocumentBuilder::pop() with the count pushed behind the elements
PopCountBehind(b) ==
    LET count == b.m_counts[Len(b.m_counts)]
        cur == [b.m_stack[Len(b.m_stack)] EXCEPT !.p = Len(b.m_doc.m_values)]
        startIndex == Len(b.m_values) - count
        d1 == [b.m_doc EXCEPT !.m_values =
                 (@ \o SubSeqFrom(b.m_values, startIndex + 1)) \o <<ValueOfDouble(IntNum(count))>>]
        b1 == [b EXCEPT !.m_values = SubSeq(@, 1, startIndex),
                        !.m_stack = SubSeq(@, 1, Len(@) - 1),
                        !.m_counts = SubSeq(@, 1, Len(@) - 1),
                        !.rc = "None"]
    IN  IF Len(b1.m_stack) = 0
        THEN LET d2 == assignRoot(d1, cur)
             IN  [b1 EXCEPT !.m_doc = d2, !.m_currentValue = d2.data]
        ELSE [b1 EXCEPT !.m_doc = d1, !.m_currentValue = cur]

\* DocumentBuilder::pop()
DB_pop(b) ==
    LET count == b.m_counts[Len(b.m_counts)]
        cur == [b.m_stack[Len(b.m_stack)] EXCEPT !.p = Len(b.m_doc.m_values)]
        startIndex == Len(b.m_values) - count
        d1 == [b.m_doc EXCEPT !.m_values =
                 Append(@, ValueOfDouble(IntNum(count))) \o SubSeqFrom(b.m_values, startIndex + 1)]
        b1 == [b EXCEPT !.m_values = SubSeq(@, 1, startIndex),
                        !.m_stack = SubSeq(@, 1, Len(@) - 1),
                        !.m_counts = SubSeq(@, 1, Len(@) - 1),
                        !.rc = "None"]
    IN  IF Len(b1.m_stack) = 0
        THEN LET d2 == assignRoot(d1, cur)
             IN  [b1 EXCEPT !.m_doc = d2, !.m_currentValue = d2.data]
        ELSE [b1 EXCEPT !.m_doc = d1, !.m_currentValue = cur]

\* addKey(), addKeyedValue() and addArrayValue()
DB_addValue(b) ==
    [b EXCEPT !.m_values = Append(@, b.m_currentValue),
              !.m_counts[Len(b.m_counts)] = @ + 1]

\* stringBufferAddByOffset(str); the offset returned is the length of
\* m_strings before
DB_stringBufferAddByOffset(b, str) == [b EXCEPT !.m_doc.m_strings = (@ \o str) \o <<0>>]

\* operator+=(v)
DB_plusEquals(b, v) ==
    [b EXCEPT !.m_values = Append(@, v), !.m_counts[Len(b.m_counts)] = @ + 1]

\* An operator[] that counts the key and leaves out the Value& it returns
SubscriptCountsKey(b, keyOffset, v) ==
    [b EXCEPT !.m_values = @ \o <<ValueOfType("String", keyOffset), v>>,
              !.m_counts[Len(b.m_counts)] = @ + 1]

\* operator[](keyOffset) = v: the key, and the Value& returned assigned v
DB_subscript(b, keyOffset, v) ==
    [b EXCEPT !.m_values = @ \o <<ValueOfType("String", keyOffset), v>>,
              !.m_counts[Len(b.m_counts)] = @ + 2]

DB_isValidRoot(b) == isObject(b.m_doc.data) \/ isArray(b.m_doc.data)

-----------------------------------------------------------------------------
(* Reflected C++ objects and their Reflector classes                        *)

\* The types of reflected objects: int, double, bool, std::string,
\* std::vector<T>, std::map<std::string, T>, std::array<T, N>, a class with
\* JSON5_MEMBERS and a class read through a TupleReflector<Types...>.  An
\* object of a container or class type is the sequence of its elements
\* (members in declaration order); a map is the sequence of its
\* <<key, value>> entries in key order.
TInt == [t |-> "int"]
TDouble == [t |-> "double"]
TBool == [t |-> "bool"]
TString == [t |-> "string"]
TVector(e) == [t |-> "vector", elem |-> e]
TMap(e) == [t |-> "map", elem |-> e]
TArray(e, n) == [t |-> "array", elem |-> e, n |-> n]
TClass(names, types) == [t |-> "class", names |-> names, types |-> types]
TTuple(types) == [t |-> "tuple", types |-> types]
\* An enum registered with JSON5_ENUM: EnumWrapper<T>::Names, in the order
\* of EnumTable<T>::Values.  An object of the type is the number of its
\* enumerator; the enumerators registered are 0, 1, ... in that order.
TEnum(names) == [t |-> "enum", names |-> names]

RECURSIVE DefaultOf(_)
\* The value-initialized object of a type
DefaultOf(ty) ==
    CASE ty.t \in {"int", "double", "enum"} -> NumZero
      [] ty.t = "bool" -> FALSE
      [] ty.t \in {"string", "vector", "map"} -> <<>>
      [] ty.t = "array" -> [i \in 1..ty.n |-> DefaultOf(ty.elem)]
      [] ty.t \in {"class", "tuple"} -> [i \in 1..Len(ty.types) |-> DefaultOf(ty.types[i])]

RECURSIVE GetAt(_, _)
\* The sub-object of v a path of indices leads to
GetAt(v, path) == IF Len(path) = 0 THEN v ELSE GetAt(v[path[1]], Tail(path))

RECURSIVE SetAt(_, _, _)
SetAt(v, path, x) ==
    IF Len(path) = 0 THEN x ELSE [v EXCEPT ![path[1]] = SetAt(v[path[1]], Tail(path), x)]

\* (int)number: the conversion of a double to an integral type truncates
Truncate(n) ==
    IF n.k = "fin" /\ n.exp < 0
    THEN Normalize(n.neg, n.mant \div Pow(10, 0 - n.exp), 0) ELSE n

\* A Reflector on the stack of a ReflectionBuilder: its class, the path of
\* the object it refers to (m_obj) and the type of that object.
\* m_nextIndex is ArrayReflector's member; m_writtenElements and m_current
\* (the index of the component referred to, 0 for std::nullopt) are
\* TupleReflector's, m_err the enum Reflector's.
MkReflector(cls, path, ty) ==
    [cls |-> cls, path |-> path, ty |-> ty, m_nextIndex |-> 0,
     m_writtenElements |-> 0, m_current |-> 0, m_err |-> "None"]
IgnoreReflector == MkReflector("ignore", <<>>, TBool)
\* std::unique_ptr<IgnoreReflector>(): a pointer that owns nothing
NullReflector == MkReflector("null", <<>>, TBool)

\* std::make_unique<Reflector<T>>(obj) for the object at path of root: the
\* constructors of the vector and map Reflectors clear the object.
MakeReflector(root, path, ty) ==
    [root |-> IF ty.t \in {"vector", "map"} THEN SetAt(root, path, <<>>) ELSE root,
     refl |-> MkReflector(ty.t, path, ty)]

allowString(r) == r.cls \in {"string", "enum", "ignore"}
allowObject(r) == r.cls \in {"class", "map", "ignore"}
allowArray(r) == r.cls \in {"vector", "array", "tuple", "ignore"}
getNonTypeError(r) ==
    CASE r.cls \in {"class", "map"} -> "ObjectExpected"
      [] r.cls \in {"int", "double", "enum"} -> "NumberExpected"
      [] r.cls = "bool" -> "BooleanExpected"
      [] r.cls = "string" -> "StringExpected"
      [] r.cls \in {"vector", "array", "tuple"} -> "ArrayExpected"
      [] r.cls = "ignore" -> "None"
      [] OTHER -> "Crash"

\* The 1-based index of key among the entries of a map, 0 if absent
MapIndex(m, key) ==
    IF \E i \in 1..Len(m) : m[i][1] = key THEN CHOOSE i \in 1..Len(m) : m[i][1] = key ELSE 0

\* m[key] of std::map: the entry of key, inserted value-initialized in key
\* order when absent
MapInsert(m, key, ty) ==
    IF MapIndex(m, key) # 0 THEN m
    ELSE LET k == Cardinality({i \in 1..Len(m) : strcmp(m[i][1], key) < 0})
         IN  SubSeq(m, 1, k) \o <<(<<key, DefaultOf(ty)>>)>> \o SubSeqFrom(m, k + 1)

\* The 1-based index of a member name among ClassWrapper<T>::Names, 0 if absent
NameIndex(names, key) ==
    IF \E i \in 1..Len(names) : names[i] = key
    THEN CHOOSE i \in 1..Len(names) : names[i] = key /\ \A j \in 1..i - 1 : names[j] # key
    ELSE 0

\* getReflectorForKey(key) of the Reflector r: the object afterwards and the
\* Reflector returned.  The builder calls it after allowObject() only.
getReflectorForKey(root, r, key) ==
    CASE r.cls = "class" ->
           LET i == NameIndex(r.ty.names, key)
           IN  IF i = 0 THEN [root |-> root, refl |-> IgnoreReflector]
               ELSE MakeReflector(root, Append(r.path, i), r.ty.types[i])
      [] r.cls = "map" ->
           LET m == MapInsert(GetAt(root, r.path), key, r.ty.elem)
           IN  MakeReflector(SetAt(root, r.path, m),
                             r.path \o <<MapIndex(m, key), 2>>, r.ty.elem)
      [] r.cls = "ignore" -> [root |-> root, refl |-> IgnoreReflector]

\* TupleReflector::getReflectorInArray(): the Reflector of the next
\* component, an IgnoreReflector behind the last one
TupleInArray(root, r) ==
    LET r1 == [r EXCEPT !.m_writtenElements = @ + 1]
    IN  IF r.m_current # 0 /\ r.m_current >= Len(r.ty.types)
        THEN [root |-> root, self |-> r1, refl |-> IgnoreReflector]
        ELSE LET made == MakeReflector(root, Append(r.path, r.m_current + 1),
                                       r.ty.types[r.m_current + 1])
             IN  [root |-> made.root, self |-> [r1 EXCEPT !.m_current = @ + 1],
                  refl |-> made.refl]

\* getReflectorInArray() of the Reflector r: the object afterwards, r
\* afterwards and the Reflector returned.  The builder calls it after
\* allowArray() only.
getReflectorInArray(root, r) ==
    CASE r.cls = "vector" ->
           LET v == Append(GetAt(root, r.path), DefaultOf(r.ty.elem))
               made == MakeReflector(SetAt(root, r.path, v), Append(r.path, Len(v)), r.ty.elem)
           IN  [root |-> made.root, self |-> r, refl |-> made.refl]
      [] r.cls = "array" ->
           IF r.m_nextIndex = r.ty.n
           THEN [root |-> root, self |-> r, refl |-> NullReflector]
           ELSE LET made == MakeReflector(root, Append(r.path, r.m_nextIndex + 1), r.ty.elem)
                IN  [root |-> made.root, self |-> [r EXCEPT !.m_nextIndex = @ + 1],
                     refl |-> made.refl]
      [] r.cls = "tuple" -> TupleInArray(root, r)
      [] r.cls = "ignore" -> [root |-> root, self |-> r, refl |-> IgnoreReflector]

\* A TupleReflector that reports a short array only
CompleteShortOnly(r) ==
    CASE r.cls = "array" -> IF r.m_nextIndex # r.ty.n THEN "WrongArraySize" ELSE "None"
      [] r.cls = "tuple" ->
           IF r.m_writtenElements < Len(r.ty.types) THEN "WrongArraySize" ELSE "None"
      [] r.cls = "null" -> "Crash"
      [] OTHER -> "None"

\* complete() of the Reflector r; m_wrongSize of ArrayReflector is never set
complete(r) ==
    CASE r.cls = "array" -> IF r.m_nextIndex # r.ty.n THEN "WrongArraySize" ELSE "None"
      [] r.cls = "tuple" ->
           IF r.m_writtenElements # Len(r.ty.types) THEN "WrongArraySize" ELSE "None"
      [] r.cls = "enum" -> r.m_err
      [] r.cls = "null" -> "Crash"
      [] OTHER -> "None"

-----------------------------------------------------------------------------
(* ReflectionBuilder.  obj is the object the builder was constructed on.    *)
(* A call through a null Reflector pointer ends the parse abnormally: the  *)
(* model reports it as the result "Crash".                                 *)

ReflectionBuilder(o, ty) ==
    LET made == MakeReflector(o, <<>>, ty)
    IN  [kind |-> "ReflectionBuilder", obj |-> made.root, m_stack |-> <<made.refl>>,
         m_processingKey |-> FALSE, m_str |-> <<>>, rc |-> "None", outOfBounds |-> FALSE]

Back(b) == b.m_stack[Len(b.m_stack)]

RB_setValueNumber(b, number) ==
    LET r == Back(b)
    IN  CASE r.cls = "int" ->
               [b EXCEPT !.obj = SetAt(@, r.path, Truncate(number)), !.rc = "None"]
          [] r.cls = "double" -> [b EXCEPT !.obj = SetAt(@, r.path, number), !.rc = "None"]
          [] r.cls = "enum" ->
               [b EXCEPT !.obj = SetAt(@, r.path, Truncate(number)), !.rc = "None"]
          [] OTHER -> [b EXCEPT !.rc = getNonTypeError(r)]

RB_setValueBool(b, boolean) ==
    LET r == Back(b)
    IN  IF r.cls = "bool" THEN [b EXCEPT !.obj = SetAt(@, r.path, boolean), !.rc = "None"]
        ELSE [b EXCEPT !.rc = getNonTypeError(r)]

\* A setValue(nullptr) that every arithmetic Reflector takes as NaN
SetValueNullAsNaN(b) ==
    LET r == Back(b)
    IN  IF r.cls \in {"int", "double"}
        THEN [b EXCEPT !.obj = SetAt(@, r.path, NAN), !.rc = "None"]
        ELSE [b EXCEPT !.rc = getNonTypeError(r)]

RB_setValueNull(b) ==
    LET r == Back(b)
    IN  IF r.cls = "double" THEN [b EXCEPT !.obj = SetAt(@, r.path, NAN), !.rc = "None"]
        ELSE [b EXCEPT !.rc = getNonTypeError(r)]

RB_setString(b) ==
    LET b1 == [b EXCEPT !.m_str = <<>>]
    IN  IF b.m_processingKey THEN [b1 EXCEPT !.rc = "None"]
        ELSE IF Back(b).cls = "null" THEN [b1 EXCEPT !.rc = "Crash"]
        ELSE IF ~allowString(Back(b)) THEN [b1 EXCEPT !.rc = getNonTypeError(Back(b))]
        ELSE [b1 EXCEPT !.rc = "None"]

RB_stringBufferAdd(b, chars) == [b EXCEPT !.m_str = @ \o chars]

\* setValue(std::string str) of the enum Reflector on top of the stack: the
\* scan of Names stores the enumerator of the first name equal to str.  Its
\* bound is sizeof(Names), the size in bytes, so that a str equal to no name
\* takes the scan behind the last name (outOfBounds) before m_err is set.
EnumSetValue(b) ==
    LET r == Back(b)
        index == NameIndex(r.ty.names, b.m_str)
    IN  IF index # 0
        THEN [b EXCEPT !.obj = SetAt(@, r.path, IntNum(index - 1)), !.m_str = <<>>]
        ELSE [b EXCEPT !.m_stack[Len(b.m_stack)].m_err = "InvalidEnum",
                       !.outOfBounds = TRUE, !.m_str = <<>>]

\* stringBufferEnd(): setValue(std::move(m_str)) leaves m_str empty
RB_stringBufferEnd(b) ==
    IF b.m_processingKey THEN b
    ELSE IF Back(b).cls = "string"
    THEN [b EXCEPT !.obj = SetAt(@, Back(b).path, b.m_str), !.m_str = <<>>]
    ELSE IF Back(b).cls = "enum" THEN EnumSetValue(b)
    ELSE [b EXCEPT !.m_str = <<>>]

RB_pushObject(b) ==
    IF Back(b).cls = "null" THEN [b EXCEPT !.rc = "Crash"]
    ELSE IF ~allowObject(Back(b)) THEN [b EXCEPT !.rc = getNonTypeError(Back(b))]
    ELSE [b EXCEPT !.m_processingKey = TRUE, !.rc = "None"]

RB_pushArray(b) ==
    IF Back(b).cls = "null" THEN [b EXCEPT !.rc = "Crash"]
    ELSE IF ~allowArray(Back(b)) THEN [b EXCEPT !.rc = getNonTypeError(Back(b))]
    ELSE [b EXCEPT !.rc = "None"]

RB_pop(b) == [b EXCEPT !.rc = complete(Back(b))]

RB_addKey(b) ==
    LET got == getReflectorForKey(b.obj, Back(b), b.m_str)
    IN  [b EXCEPT !.m_processingKey = FALSE, !.obj = got.root,
                  !.m_stack = Append(@, got.refl), !.m_str = <<>>]

RB_addKeyedValue(b) ==
    [b EXCEPT !.m_processingKey = TRUE, !.m_stack = SubSeq(@, 1, Len(@) - 1)]

RB_beginArrayValue(b) ==
    LET got == getReflectorInArray(b.obj, Back(b))
    IN  [b EXCEPT !.obj = got.root,
                  !.m_stack = Append([@ EXCEPT ![Len(@)] = got.self], got.refl)]

RB_addArrayValue(b) == [b EXCEPT !.m_stack = SubSeq(@, 1, Len(@) - 1)]

-----------------------------------------------------------------------------
(* The Builder interface: virtual dispatch on the builder's class.  Calls   *)
(* that return Error::Type leave it in rc.                                 *)

setValueNumber(b, number) ==
    IF b.kind = "DocumentBuilder" THEN DB_setValue(b, ValueOfDouble(number))
    ELSE RB_setValueNumber(b, number)
setValueBool(b, boolean) ==
    IF b.kind = "DocumentBuilder" THEN DB_setValue(b, ValueOfBool(boolean))
    ELSE RB_setValueBool(b, boolean)
setValueNull(b) ==
    IF b.kind = "DocumentBuilder" THEN DB_setValue(b, ValueOfNull) ELSE RB_setValueNull(b)
setString(b) == IF b.kind = "DocumentBuilder" THEN DB_setString(b) ELSE RB_setString(b)
stringBufferAdd(b, ch) ==
    IF b.kind = "DocumentBuilder" THEN DB_stringBufferAdd(b, <<ch>>)
    ELSE RB_stringBufferAdd(b, <<ch>>)
stringBufferAddUtf8(b, ch) ==
    IF b.kind = "DocumentBuilder" THEN DB_stringBufferAdd(b, Utf8Bytes(ch))
    ELSE RB_stringBufferAdd(b, Utf8Bytes(ch))
stringBufferEnd(b) ==
    IF b.kind = "DocumentBuilder" THEN DB_stringBufferEnd(b) ELSE RB_stringBufferEnd(b)
pushObject(b) == IF b.kind = "DocumentBuilder" THEN DB_push(b, "Object") ELSE RB_pushObject(b)
pushArray(b) == IF b.kind = "DocumentBuilder" THEN DB_push(b, "Array") ELSE RB_pushArray(b)
pop(b) == IF b.kind = "DocumentBuilder" THEN DB_pop(b) ELSE RB_pop(b)
addKey(b) == IF b.kind = "DocumentBuilder" THEN DB_addValue(b) ELSE RB_addKey(b)
addKeyedValue(b) == IF b.kind = "DocumentBuilder" THEN DB_addValue(b) ELSE RB_addKeyedValue(b)
beginArrayValue(b) == IF b.kind = "DocumentBuilder" THEN b ELSE RB_beginArrayValue(b)
addArrayValue(b) == IF b.kind = "DocumentBuilder" THEN DB_addValue(b) ELSE RB_addArrayValue(b)
isValidRoot(b) == IF b.kind = "DocumentBuilder" THEN DB_isValidRoot(b) ELSE TRUE

-----------------------------------------------------------------------------
(* detail::MemoryBlock and json5::Parser.  A parser state holds the text,   *)
(* the 1-based position of the cursor, the line and column counters, the   *)
(* builder, the Error returned so far, and the out-parameters of the       *)
(* private member functions (tt, number).                                  *)

NoError == [type |-> "None", line |-> 0, column |-> 0]

Parser(b, str) ==
    [src |-> str, pos |-> 1, m_line |-> 1, m_column |-> 1, b |-> b, err |-> NoError,
     tt |-> "Unknown", number |-> NumZero, log |-> <<>>]

\* The Builder member functions that return an Error::Type
Reporting == {"setValue", "setString", "pushObject", "pushArray", "pop"}

\* m_processingKey of a ReflectionBuilder behind a call
KeyMode(b) ==
    IF b.kind # "ReflectionBuilder" THEN "none"
    ELSE IF b.m_processingKey THEN "true" ELSE "false"

\* The record of one call of the Parser in ps.log: the function called, the
\* Error::Type it reported, the line and column of the character source, and
\* the key mode of the builder afterwards
Logged(ps, call, t) ==
    [ps EXCEPT !.log = Append(@, [call |-> call, type |-> t, line |-> ps.m_line,
                                  column |-> ps.m_column, key |-> KeyMode(ps.b)])]
\* The call of a Builder member function that gave ps
Called(ps, call) == Logged(ps, call, IF call \in Reporting THEN ps.b.rc ELSE "None")

eof(ps) == ps.pos > Len(ps.src)
peek(ps) == IF eof(ps) THEN EndOfInput ELSE ps.src[ps.pos]
\* MemoryBlock::next(): the state afterwards; the character returned is peek
next(ps) ==
    IF eof(ps) THEN ps
    ELSE IF ps.src[ps.pos] = Ord["\n"]
    THEN Logged([ps EXCEPT !.pos = @ + 1, !.m_line = @ + 1, !.m_column = 1], "next", "None")
    ELSE Logged([ps EXCEPT !.pos = @ + 1, !.m_column = @ + 1], "next", "None")
\* A Parser that reports every error as SyntaxError
SyntaxErrorOnly(ps, t) ==
    Logged([ps EXCEPT !.err = [type |-> "SyntaxError", line |-> ps.m_line,
                               column |-> ps.m_column]],
           "makeError", "SyntaxError")
makeError(ps, t) ==
    Logged([ps EXCEPT !.err = [type |-> t, line |-> ps.m_line, column |-> ps.m_column]],
           "makeError", t)
Failed(ps) == ps.err # NoError
\* A Parser that takes no notice of what a Builder call returns
IgnoreBuilder(ps) == ps
\* if (Error::Type errType = ...) return makeError(errType);
CheckBuilder(ps) == IF ps.b.rc # "None" THEN makeError(ps, ps.b.rc) ELSE ps

\* strchr("{}[]:,", ch) for ch != 0
PunctuationToken(ch) ==
    CASE ch = Ord["{"] -> "ObjectBegin"
      [] ch = Ord["}"] -> "ObjectEnd"
      [] ch = Ord["["] -> "ArrayBegin"
      [] ch = Ord["]"] -> "ArrayEnd"
      [] ch = Ord[":"] -> "Colon"
      [] ch = Ord[","] -> "Comma"
      [] OTHER -> "Unknown"

\* The number of characters left to read, a bound on the passes of a loop
\* that reads at least one character per pass
Remaining(ps) == Len(ps.src) - ps.pos + 1

\* One pass of the loop of Parser::peekNextToken, parsingComment being
\* "None", "Line" or "Block"
PeekStep(st) ==
    LET Return(p) == [st EXCEPT !.ps = p, !.done = TRUE]
        Continue(p, pc) == [st EXCEPT !.ps = p, !.parsingComment = pc]
        Branch(ps, ch, p1, branch) ==
            CASE branch = 1 -> Return(makeError(ps, "UnexpectedEnd"))
              [] branch = 2 ->
                   Continue(p1, IF st.parsingComment = "Line" THEN "None" ELSE st.parsingComment)
              [] branch = 3 /\ st.parsingComment = "Block" /\ ch = Ord["*"] ->
                   Continue(next(p1), IF peek(p1) = Ord["/"] THEN "None" ELSE "Block")
              [] branch = 3 /\ ~(st.parsingComment = "Block" /\ ch = Ord["*"]) ->
                   Continue(p1, st.parsingComment)
              [] branch = 4 /\ peek(p1) = Ord["/"] -> Continue(next(p1), "Line")
              [] branch = 4 /\ peek(p1) = Ord["*"] -> Continue(next(p1), "Block")
              [] branch = 4 /\ peek(p1) \notin {Ord["/"], Ord["*"]} ->
                   Return(makeError(p1, "SyntaxError"))
              [] branch = 5 /\ ch = 0 -> Return(ps)
              [] branch = 5 /\ ch # 0 -> Return([ps EXCEPT !.tt = PunctuationToken(ch)])
              [] branch = 6 -> Return([ps EXCEPT !.tt = "Identifier"])
              [] branch = 7 ->
                   Return([(IF ch = Ord["+"] THEN p1 ELSE ps) EXCEPT !.tt = "Number"])
              [] branch = 8 -> Return([ps EXCEPT !.tt = "String"])
              [] branch = 9 -> Return(makeError(ps, "SyntaxError"))
        Char(ps, ch) ==
            Branch(ps, ch, next(ps),
                   FirstTrue(<<eof(ps),
                               ch = Ord["\n"],
                               st.parsingComment # "None" \/ IsSpace(ch),
                               ch = Ord["/"],
                               ch = 0 \/ PunctuationToken(ch) # "Unknown",
                               isalpha(ch) \/ ch = Ord["_"],
                               isdigit(ch) \/ ch = Ord["."] \/ ch = Ord["+"] \/ ch = Ord["-"],
                               ch = Ord["\""] \/ ch = Ord["'"],
                               TRUE>>))
    IN  Char(st.ps, peek(st.ps))

RECURSIVE PeekLoop(_)
\* The passes of the loop until it is left
PeekLoop(st) == IF st.done THEN st ELSE PeekLoop(PeekStep(st))

\* Parser::peekNextToken(result), result holding tt on entry
peekNextToken(ps, tt) ==
    PeekLoop([ps |-> [ps EXCEPT !.tt = tt], parsingComment |-> "None", done |-> FALSE]).ps

\* sizeof(buff) of Parser::parseNumber
BuffSize == 256

\* One pass of the loop of Parser::parseNumber
NumberStep(st) ==
    LET Copied(p1, ch) ==
            [ps |-> p1, buff |-> Append(st.buff, peek(st.ps)),
             done |-> IsSpace(ch) \/ ch = Ord[","] \/ ch = Ord["}"] \/ ch = Ord["]"]]
        Step(p1) == Copied(p1, peek(p1))
    IN  IF eof(st.ps) \/ Len(st.buff) >= BuffSize THEN [st EXCEPT !.done = TRUE]
        ELSE Step(next(st.ps))

RECURSIVE NumberLoop(_)
\* The passes of the loop until it is left
NumberLoop(st) == IF st.done THEN st ELSE NumberLoop(NumberStep(st))

\* The loop of Parser::parseNumber: the state after it and the characters
\* copied to buff
NumberRun(ps, buff) ==
    NumberLoop([ps |-> ps, buff |-> buff, done |-> FALSE])

\* Parser::parseNumber(result)
parseNumber(ps) ==
    LET Converted(p1, conv) ==
            IF NumEq(conv.result, NumZero) /\ conv.used = 0 THEN makeError(p1, "SyntaxError")
            ELSE [p1 EXCEPT !.number = conv.result]
        Copied(run) == Converted(run.ps, strtod(run.buff))
    IN  Copied(NumberRun(ps, <<>>))

\* m_builder.stringBufferAdd(ch) from the parser
Add(ps, ch) == Called([ps EXCEPT !.b = stringBufferAdd(ps.b, ch)], "stringBufferAdd")

RECURSIVE ReadCode(_, _, _)
\* The for loop of the \x and \u branch: n characters still to read into
\* code.  char(next()) is 0xFF at the end of input; strchr finds the zero
\* byte at the end of HexChars.
ReadCode(ps, n, code) ==
    LET Read(c) ==
            IF ~(IsHexChar(c) \/ c = 0) THEN [ps |-> next(ps), code |-> code, ok |-> FALSE]
            ELSE ReadCode(next(ps), n - 1, Append(code, c))
    IN  IF n = 0 THEN [ps |-> ps, code |-> code, ok |-> TRUE]
        ELSE Read(IF eof(ps) THEN 255 ELSE peek(ps))

\* The character a single-character escape sequence stands for
Unescaped(c2) ==
    CASE c2 = Ord["t"] -> Ord["\t"]
      [] c2 = Ord["n"] -> Ord["\n"]
      [] c2 = Ord["r"] -> Ord["\r"]
      [] c2 = Ord["b"] -> Ord["BS"]
      [] c2 = Ord["0"] -> 0
      [] OTHER -> c2

\* One pass of the while loop of Parser::parseString
StringStep(st) ==
    LET ps == st.ps
        ch == peek(ps)
        p1 == next(ps)
        Return(p) == [st EXCEPT !.ps = p, !.done = TRUE]
        Continue(p) == [st EXCEPT !.ps = p]
        Code(p3, ok, digits, code) ==
            IF ~ok \/ digits = 0 THEN Return(makeError(p3, "InvalidEscapeSeq"))
            ELSE Continue(Called([p3 EXCEPT !.b = stringBufferAddUtf8(@, HexValue(code, 1, digits, 0))], "stringBufferAddUtf8"))
        Hex(rd) == Code(rd.ps, rd.ok, HexRun(rd.code, 1), rd.code)
        Escape(c2, p2) ==
            CASE c2 = Ord["\n"] \/ c2 = Ord["v"] \/ c2 = Ord["f"] -> Continue(p2)
              [] c2 = Ord["x"] \/ c2 = Ord["u"] ->
                   Hex(ReadCode(p2, IF c2 = Ord["x"] THEN 2 ELSE 4, <<>>))
              [] c2 \in {Ord["t"], Ord["n"], Ord["r"], Ord["b"], Ord["\\"], Ord["'"],
                         Ord["\""], Ord["/"], Ord["0"]} -> Continue(Add(p2, Unescaped(c2)))
              [] OTHER -> Return(makeError(p1, "InvalidEscapeSeq"))
        branch == FirstTrue(<<eof(ps),
                              (st.singleQuoted /\ ch = Ord["'"])
                                \/ (~st.singleQuoted /\ ch = Ord["\""]),
                              ch = Ord["\\"],
                              TRUE>>)
    IN  CASE branch = 1 -> Return(ps)
          [] branch = 2 -> Return(p1)
          [] branch = 3 -> Escape(peek(p1), next(p1))
          [] branch = 4 -> Continue(Add(p1, ch))

RECURSIVE StringStepLoop(_)
\* The passes of the loop until it is left
StringStepLoop(st) == IF st.done THEN st ELSE StringStepLoop(StringStep(st))

\* The while loop of Parser::parseString
StringLoop(ps, singleQuoted) ==
    StringStepLoop([ps |-> ps, singleQuoted |-> singleQuoted, done |-> FALSE]).ps

\* Parser::parseString()
parseString(ps) ==
    LET Closed(p2) ==
            IF Failed(p2) THEN p2
            ELSE IF eof(p2) THEN makeError(p2, "UnexpectedEnd")
            ELSE Called([p2 EXCEPT !.b = stringBufferEnd(@)], "stringBufferEnd")
        Opened(p1) == IF Failed(p1) THEN p1 ELSE Closed(StringLoop(p1, peek(ps) = Ord["'"]))
    IN  Opened(CheckBuilder(Called([next(ps) EXCEPT !.b = setString(@)], "setString")))

\* One pass of the while loop of Parser::parseIdentifier
IdentifierStep(st) ==
    LET Added(p1, ch) ==
            [ps |-> p1, done |-> ~isalpha(ch) /\ ~isdigit(ch) /\ ch # Ord["_"]]
        Step(p1) == Added(p1, peek(p1))
    IN  IF eof(st.ps) THEN [st EXCEPT !.done = TRUE]
        ELSE Step(Add(next(st.ps), peek(st.ps)))

RECURSIVE IdentifierStepLoop(_)
\* The passes of the loop until it is left
IdentifierStepLoop(st) == IF st.done THEN st ELSE IdentifierStepLoop(IdentifierStep(st))

\* The while loop of Parser::parseIdentifier
IdentifierLoop(ps) ==
    IdentifierStepLoop([ps |-> ps, done |-> FALSE]).ps

\* Parser::parseIdentifier()
parseIdentifier(ps) ==
    LET firstCh == peek(ps)
        quoted == firstCh = Ord["'"] \/ firstCh = Ord["\""]
        Started(p1) ==
            IF Failed(p1) THEN p1
            ELSE IF quoted THEN parseString(p1)
            ELSE Called([IdentifierLoop(p1) EXCEPT !.b = stringBufferEnd(@)], "stringBufferEnd")
    IN  Started(CheckBuilder(Called([ps EXCEPT !.b = setString(@)], "setString")))

RECURSIVE MatchRest(_, _)
\* next() == w[1] && next() == w[2] && ...: the state after the last next()
\* evaluated, and whether every comparison held
MatchRest(ps, w) ==
    IF Len(w) = 0 THEN [ps |-> ps, ok |-> TRUE]
    ELSE IF peek(ps) # w[1] THEN [ps |-> next(ps), ok |-> FALSE]
    ELSE MatchRest(next(ps), Tail(w))

\* Parser::parseLiteral(result)
parseLiteral(ps) ==
    LET ch == peek(ps)
        word == CASE ch = Ord["t"] -> Str(<<"r", "u", "e">>)
                  [] ch = Ord["f"] -> Str(<<"a", "l", "s", "e">>)
                  [] ch = Ord["n"] -> Str(<<"u", "l", "l">>)
                  [] OTHER -> <<>>
        lit == CASE ch = Ord["t"] -> "LiteralTrue"
                 [] ch = Ord["f"] -> "LiteralFalse"
                 [] ch = Ord["n"] -> "LiteralNull"
                 [] OTHER -> "Unknown"
        Matched(m) ==
            IF m.ok THEN [m.ps EXCEPT !.tt = lit] ELSE makeError(m.ps, "InvalidLiteral")
    IN  IF lit = "Unknown" THEN makeError(ps, "InvalidLiteral")
        ELSE Matched(MatchRest(next(ps), word))

RECURSIVE parseValue(_)

ObjectValue(st, p4) ==
    IF Failed(p4) THEN [st EXCEPT !.ps = p4, !.done = TRUE]
    ELSE [st EXCEPT !.ps = Called([p4 EXCEPT !.b = addKeyedValue(@)], "addKeyedValue"), !.expectComma = TRUE]

\* the pass up to m_builder.addKey(): stop tells whether the pass returns or
\* continues before it, or goes on to parse the value
ObjectColon(p3) ==
    CASE Failed(p3) -> [ps |-> p3, stop |-> "return"]
      [] ~Failed(p3) /\ p3.tt # "Colon" ->
           [ps |-> makeError(p3, "ColonExpected"), stop |-> "return"]
      [] OTHER -> [ps |-> Called([next(p3) EXCEPT !.b = addKey(@)], "addKey"), stop |-> "value"]

ObjectKey(p2) ==
    IF Failed(p2) THEN [ps |-> p2, stop |-> "return"] ELSE ObjectColon(peekNextToken(p2, p2.tt))

ObjectToken(st, p1) ==
    LET branch == FirstTrue(<<Failed(p1),
                              p1.tt = "ObjectEnd",
                              p1.tt = "Comma",
                              p1.tt \notin {"Identifier", "String"},
                              st.expectComma,
                              TRUE>>)
    IN  CASE branch = 1 -> [ps |-> p1, stop |-> "return"]
          [] branch = 2 -> [ps |-> next(p1), stop |-> "return"]
          [] branch = 3 /\ ~st.expectComma ->
               [ps |-> makeError(p1, "SyntaxError"), stop |-> "return"]
          [] branch = 3 /\ st.expectComma -> [ps |-> next(p1), stop |-> "continue"]
          [] branch = 4 ->
               [ps |-> makeError(p1, IF st.expectComma THEN "CommaExpected"
                                     ELSE "SyntaxError"),
                stop |-> "return"]
          [] branch = 5 -> [ps |-> makeError(p1, "CommaExpected"), stop |-> "return"]
          [] branch = 6 -> ObjectKey(parseIdentifier(p1))

ObjectBegun(st, h) ==
    CASE h.stop = "return" -> [st EXCEPT !.ps = h.ps, !.done = TRUE]
      [] h.stop = "continue" -> [st EXCEPT !.ps = h.ps, !.expectComma = FALSE]
      [] h.stop = "value" -> ObjectValue(st, parseValue(h.ps))

\* One pass of the while loop of Parser::parseObject
ObjectStep(st) ==
    IF eof(st.ps) THEN [st EXCEPT !.ps = makeError(st.ps, "UnexpectedEnd"), !.done = TRUE]
    ELSE ObjectBegun(st, ObjectToken(st, peekNextToken(st.ps, "Unknown")))

RECURSIVE ObjectLoop(_)
\* The passes of the loop until it is left
ObjectLoop(st) == IF st.done THEN st ELSE ObjectLoop(ObjectStep(st))

\* Parser::parseObject()
parseObject(ps) ==
    ObjectLoop([ps |-> next(ps), expectComma |-> FALSE, done |-> FALSE]).ps

\* The pass of the loop of parseArray without the call of beginArrayValue
ArrayStepNoBegin(st) ==
    LET Return(p) == [st EXCEPT !.ps = p, !.done = TRUE]
        Value(p2) ==
            IF Failed(p2) THEN Return(p2)
            ELSE [st EXCEPT !.ps = Called([p2 EXCEPT !.b = addArrayValue(@)], "addArrayValue"), !.expectComma = TRUE]
        Token(p1) ==
            LET branch == FirstTrue(<<Failed(p1), p1.tt = "ArrayEnd", st.expectComma, TRUE>>)
            IN  CASE branch = 1 -> Return(p1)
                  [] branch = 2 -> Return(next(p1))
                  [] branch = 3 /\ p1.tt # "Comma" -> Return(makeError(p1, "CommaExpected"))
                  [] branch = 3 /\ p1.tt = "Comma" ->
                       [st EXCEPT !.ps = next(p1), !.expectComma = FALSE]
                  [] branch = 4 -> Value(parseValue(p1))
    IN  IF eof(st.ps) THEN Return(makeError(st.ps, "UnexpectedEnd"))
        ELSE Token(peekNextToken(st.ps, "Unknown"))

ArrayValue(st, p2) ==
    IF Failed(p2) THEN [st EXCEPT !.ps = p2, !.done = TRUE]
    ELSE [st EXCEPT !.ps = Called([p2 EXCEPT !.b = addArrayValue(@)], "addArrayValue"), !.expectComma = TRUE]

ArrayToken(st, p1) ==
    LET branch == FirstTrue(<<Failed(p1), p1.tt = "ArrayEnd", st.expectComma, TRUE>>)
    IN  CASE branch = 1 -> [st EXCEPT !.ps = p1, !.done = TRUE]
          [] branch = 2 -> [st EXCEPT !.ps = next(p1), !.done = TRUE]
          [] branch = 3 /\ p1.tt # "Comma" ->
               [st EXCEPT !.ps = makeError(p1, "CommaExpected"), !.done = TRUE]
          [] branch = 3 /\ p1.tt = "Comma" ->
               [st EXCEPT !.ps = next(p1), !.expectComma = FALSE]
          [] branch = 4 -> ArrayValue(st, parseValue(Called([p1 EXCEPT !.b = beginArrayValue(@)], "beginArrayValue")))

\* One pass of the while loop of Parser::parseArray
ArrayStep(st) ==
    IF eof(st.ps) THEN [st EXCEPT !.ps = makeError(st.ps, "UnexpectedEnd"), !.done = TRUE]
    ELSE ArrayToken(st, peekNextToken(st.ps, "Unknown"))

RECURSIVE ArrayLoop(_)
\* The passes of the loop until it is left
ArrayLoop(st) == IF st.done THEN st ELSE ArrayLoop(ArrayStep(st))

\* Parser::parseArray()
parseArray(ps) ==
    ArrayLoop([ps |-> next(ps), expectComma |-> FALSE, done |-> FALSE]).ps

\* Parser::parseValue()
parseValue(ps) ==
    LET Number(p2) ==
            IF Failed(p2) THEN p2
            ELSE CheckBuilder(Called([p2 EXCEPT !.b = setValueNumber(@, p2.number)], "setValue"))
        Literal(p2) ==
            CASE Failed(p2) -> p2
              [] ~Failed(p2) /\ p2.tt \in {"LiteralTrue", "LiteralFalse"} ->
                   CheckBuilder(Called([p2 EXCEPT !.b = setValueBool(@, p2.tt = "LiteralTrue")], "setValue"))
              [] ~Failed(p2) /\ p2.tt = "LiteralNull" ->
                   CheckBuilder(Called([p2 EXCEPT !.b = setValueNull(@)], "setValue"))
              [] OTHER -> makeError(p2, "InvalidLiteral")
        Closed(p3) == IF Failed(p3) THEN p3 ELSE CheckBuilder(Called([p3 EXCEPT !.b = pop(@)], "pop"))
        Object(p2) == IF Failed(p2) THEN p2 ELSE Closed(parseObject(p2))
        Array(p2) == IF Failed(p2) THEN p2 ELSE Closed(parseArray(p2))
        Token(p1) ==
            CASE Failed(p1) -> p1
              [] ~Failed(p1) /\ p1.tt = "Number" -> Number(parseNumber(p1))
              [] ~Failed(p1) /\ p1.tt = "String" -> parseString(p1)
              [] ~Failed(p1) /\ p1.tt = "Identifier" -> Literal(parseLiteral(p1))
              [] ~Failed(p1) /\ p1.tt = "ObjectBegin" ->
                   Object(CheckBuilder(Called([p1 EXCEPT !.b = pushObject(@)], "pushObject")))
              [] ~Failed(p1) /\ p1.tt = "ArrayBegin" ->
                   Array(CheckBuilder(Called([p1 EXCEPT !.b = pushArray(@)], "pushArray")))
              [] OTHER -> makeError(p1, "SyntaxError")
    IN  Token(peekNextToken(ps, "Unknown"))

\* Parser::parse()
parse(ps) ==
    LET Valid(p2) == IF ~isValidRoot(p2.b) THEN makeError(p2, "InvalidRoot") ELSE p2
        Root(p1) == IF Failed(p1) THEN p1 ELSE Valid(Called(p1, "isValidRoot"))
    IN  Root(parseValue(ps))

\* The calls of Parser(b, str).parse() in order, and behind them the return
\* of the Error to the caller
ParseCalls(str, b) ==
    LET Result(ps) ==
            Append(ps.log, [call |-> "return", type |-> ps.err.type, line |-> ps.err.line,
                            column |-> ps.err.column, key |-> KeyMode(ps.b)])
    IN  Result(parse(Parser(b, str)))

\* FromString(str, builder): the Error returned and the builder afterwards
FromStringBuilder(str, b) ==
    LET Result(ps) == [err |-> ps.err, b |-> ps.b]
    IN  Result(parse(Parser(b, str)))

\* FromString(str, doc): the Error returned and the Document afterwards
FromString(str, d) ==
    LET Result(r) == [err |-> r.err, doc |-> r.b.m_doc]
    IN  Result(FromStringBuilder(str, DocumentBuilder(d)))

\* FromString(str, T& value): the Error returned and the object afterwards
FromStringReflect(str, o, ty) ==
    LET Result(r) == [err |-> r.err, obj |-> r.b.obj, outOfBounds |-> r.b.outOfBounds]
    IN  Result(FromStringBuilder(str, ReflectionBuilder(o, ty)))

-----------------------------------------------------------------------------
(* WriterParams and Json5Writer.  A writer holds the characters written to  *)
(* the stream (m_os), the stream's basefield flag (hex), its members, and  *)
(* cast, the outcome the build gives an out-of-range (int64_t) conversion. *)
(* hang is set when writeString enters a loop that never ends.             *)

WriterParams(indentation, eolStr, compact, jsonCompatible, escapeUnicode) ==
    [indentation |-> indentation, eol |-> eolStr, compact |-> compact,
     jsonCompatible |-> jsonCompatible, escapeUnicode |-> escapeUnicode]

Json5Writer(params, cast) ==
    [m_os |-> <<>>, hex |-> FALSE, m_wp |-> params,
     m_firstElement |-> FALSE, m_firstElementStack |-> <<>>,
     m_depth |-> IF params.compact THEN 0 - 1 ELSE 0,
     m_kvSeparator |-> IF params.compact THEN Str(<<":">>) ELSE Str(<<":", " ">>),
     m_eol |-> IF params.compact THEN <<>> ELSE params.eol,
     cast |-> cast, hang |-> FALSE]

\* m_os << chars (nothing more is written once the writer hangs)
Out(w, chars) == IF w.hang THEN w ELSE [w EXCEPT !.m_os = @ \o chars]

writeNull(w) == Out(w, Str(<<"n", "u", "l", "l">>))
writeBoolean(w, boolean) ==
    Out(w, IF boolean THEN Str(<<"t", "r", "u", "e">>) ELSE Str(<<"f", "a", "l", "s", "e">>))
writeNumber(w, number) ==
    IF FractionIsZero(number) THEN Out(w, FormatCast(number, w.hex, w.cast))
    ELSE IF isnan(number)
    THEN IF w.m_wp.compact THEN Out(w, Str(<<"n", "u", "l", "l">>))
         ELSE Out(w, Str(<<"N", "a", "N">>))
    ELSE Out(w, FormatDouble(number))

\* std::numeric_limits<size_t>::max() as the len of a C string
NoLen == 0 - 1

\* The number of bytes the lead byte c announces (0: none of the patterns)
Utf8Length(c) ==
    IF c \div 32 = 6 THEN 2
    ELSE IF c \div 16 = 14 THEN 3
    ELSE IF c \div 8 = 30 THEN 4
    ELSE IF c \div 4 = 62 THEN 5
    ELSE IF c \div 2 = 126 THEN 6
    ELSE 0

RECURSIVE Continuation(_, _, _, _)
\* ch |= ((*str++) & 0b0011'1111u) << ... for the n bytes of s from position i
Continuation(s, i, n, acc) ==
    IF n = 0 THEN acc ELSE Continuation(s, i + 1, n - 1, acc * 64 + (CharAt(s, i) % 64))

\* The decoder without the two extended forms of 5 and 6 bytes
DecodeStandardOnly(s, i) ==
    LET n == Utf8Length(s[i])
        lead == CASE n = 2 -> s[i] % 32
                  [] n = 3 -> s[i] % 16
                  [] n = 4 -> s[i] % 8
                  [] OTHER -> 0
    IN  IF n = 0 \/ n > 4 THEN 0 ELSE Continuation(s, i + 1, n - 1, lead)

\* The codepoint decoded from the bytes of s at position i
Utf8Decode(s, i) ==
    LET n == Utf8Length(s[i])
        lead == CASE n = 2 -> s[i] % 32
                  [] n = 3 -> s[i] % 16
                  [] n = 4 -> s[i] % 8
                  [] n = 5 -> s[i] % 4
                  [] n = 6 -> s[i] % 2
                  [] OTHER -> 0
    IN  IF n = 0 THEN 0 ELSE Continuation(s, i + 1, n - 1, lead)

\* m_os << "\\u" << std::hex << std::setfill('0') << std::setw(4) << ch
HexEscape(ch) ==
    LET h == HexChars(HexDigitsOf(DigitsOf(ch)))
    IN  <<Ord["\\"], Ord["u"]>> \o Rep(<<Ord["0"]>>, 4 - Len(h)) \o h

\* One pass of the while loop of writeString(str, len, quotes, escapeUnicode),
\* str being at the 1-based position st.i of s; the bytes behind the end of s
\* read as 0.
WriteStringStep(st, s, quotes, escapeUnicode) ==
    LET Put(chars, n) ==
            [w |-> Out(st.w, chars), i |-> st.i + n,
             len |-> IF st.len = NoLen THEN st.len ELSE st.len - 1, done |-> FALSE]
        Unicode(c, ch) ==
            CASE Utf8Length(c) = 0 /\ st.len = NoLen ->
                     [st EXCEPT !.w = [Out(@, HexEscape(0)) EXCEPT !.hex = TRUE, !.hang = TRUE],
                                !.done = TRUE]
              [] ~(Utf8Length(c) = 0 /\ st.len = NoLen) /\ ch <= 65535 ->
                     [Put(HexEscape(ch), Utf8Length(c)) EXCEPT !.w.hex = TRUE]
              [] OTHER -> Put(Str(<<"?">>), Utf8Length(c))
        Branch(c, branch) ==
            CASE branch = 1 -> [st EXCEPT !.done = TRUE]
              [] branch = 2 -> Put(Str(<<"\\", "n">>), 1)
              [] branch = 3 -> Put(Str(<<"\\", "r">>), 1)
              [] branch = 4 -> Put(Str(<<"\\", "t">>), 1)
              [] branch = 5 -> Put(Str(<<"\\", "\"">>), 1)
              [] branch = 6 -> Put(Str(<<"\\", "'">>), 1)
              [] branch = 7 -> Put(Str(<<"\\", "\\">>), 1)
              [] branch = 8 -> Unicode(c, Utf8Decode(s, st.i))
              [] branch = 9 -> Put(<<c>>, 1)
        Char(c) ==
            Branch(c, FirstTrue(<<~(IF st.len = NoLen THEN c # 0 ELSE st.len > 0),
                                  c = Ord["\n"], c = Ord["\r"], c = Ord["\t"],
                                  c = Ord["\""] /\ quotes = Ord["\""],
                                  c = Ord["'"] /\ quotes = Ord["'"],
                                  c = Ord["\\"], c >= 128 /\ escapeUnicode, TRUE>>))
    IN  Char(CharAt(s, st.i))

RECURSIVE WriteStringLoop(_, _, _, _)
WriteStringLoop(st, s, quotes, escapeUnicode) ==
    IF st.done THEN st
    ELSE WriteStringLoop(WriteStringStep(st, s, quotes, escapeUnicode), s, quotes, escapeUnicode)

\* writeString(str, len, quotes, escapeUnicode); quotes is 0 for none
writeStringLen(w, s, len, quotes, escapeUnicode) ==
    LET Closed(w1) == IF w1.hang THEN w1 ELSE Out(w1, IF quotes # 0 THEN <<quotes>> ELSE <<>>)
    IN  Closed(WriteStringLoop([w |-> Out(w, IF quotes # 0 THEN <<quotes>> ELSE <<>>), i |-> 1,
                                len |-> len, done |-> FALSE],
                               s, quotes, escapeUnicode).w)

\* The 1-based position of str in s when the loop of writeString is left:
\* the position of the byte the last iterate(*str) read
StrAtExit(w, s, len, quotes, escapeUnicode) ==
    WriteStringLoop([w |-> w, i |-> 1, len |-> len, done |-> FALSE], s, quotes, escapeUnicode).i

\* writeString(const char* str)
writeString(w, s) == writeStringLen(w, s, NoLen, Ord["\""], w.m_wp.escapeUnicode)
\* writeString(std::string_view str)
writeStringView(w, s) == writeStringLen(w, s, Len(s), Ord["\""], w.m_wp.escapeUnicode)

push(w) ==
    [w EXCEPT !.m_firstElementStack = Append(@, w.m_firstElement),
              !.m_firstElement = TRUE,
              !.m_depth = IF @ # 0 - 1 THEN @ + 1 ELSE @]
\* A pop() that leaves m_depth as it is
PopKeepDepth(w) ==
    [w EXCEPT !.m_firstElement = w.m_firstElementStack[Len(w.m_firstElementStack)],
              !.m_firstElementStack = SubSeq(@, 1, Len(@) - 1)]
popWriter(w) ==
    [w EXCEPT !.m_firstElement = w.m_firstElementStack[Len(w.m_firstElementStack)],
              !.m_firstElementStack = SubSeq(@, 1, Len(@) - 1),
              !.m_depth = IF @ # 0 - 1 THEN @ - 1 ELSE @]
indent(w) == Out(w, Rep(w.m_wp.indentation, IF w.m_depth > 0 THEN w.m_depth ELSE 0))
\* writeSeparatorAndIndent() with the comma written behind the end of line
SeparatorBehindEol(w) ==
    LET w1 == Out(w, w.m_eol)
    IN  indent(IF w.m_firstElement THEN [w1 EXCEPT !.m_firstElement = FALSE]
               ELSE Out(w1, Str(<<",">>)))

writeSeparatorAndIndent(w) ==
    LET w1 == IF w.m_firstElement THEN [w EXCEPT !.m_firstElement = FALSE]
              ELSE Out(w, Str(<<",">>))
    IN  indent(Out(w1, w.m_eol))

beginArray(w) == Out(push(w), Str(<<"[">>))
beginArrayElement(w) == writeSeparatorAndIndent(w)
endArray(w) == Out(indent(popWriter(Out(w, w.m_eol))), Str(<<"]">>))
writeEmptyArray(w) == Out(w, Str(<<"[", "]">>))
beginObject(w) == Out(push(w), Str(<<"{">>))
beginObjectElement(w) == writeSeparatorAndIndent(w)
endObject(w) == Out(indent(popWriter(Out(w, w.m_eol))), Str(<<"}">>))
writeEmptyObject(w) == Out(w, Str(<<"{", "}">>))
completeWriter(w) == Out(w, w.m_eol)

\* writeObjectKey(str, len)
writeObjectKeyLen(w, s, len) ==
    IF w.m_wp.jsonCompatible
    THEN LET w1 == writeStringLen(w, s, len, Ord["\""], w.m_wp.escapeUnicode)
         IN  IF w1.hang THEN w1 ELSE Out(w1, w.m_kvSeparator)
    ELSE IF len # NoLen THEN Out(w, SubSeq(s, 1, len) \o w.m_kvSeparator)
    ELSE Out(w, CStrPrefix(s) \o w.m_kvSeparator)
\* writeObjectKey(const char* str)
writeObjectKey(w, s) == writeObjectKeyLen(w, s, NoLen)
\* writeObjectKey(std::string_view str)
writeObjectKeyView(w, s) == writeObjectKeyLen(w, s, Len(s))

-----------------------------------------------------------------------------
(* Write(writer, value) and ToString for a Document                         *)

RECURSIVE Write(_, _, _)

\* One pass of the for loop over an ArrayView
WriteElementsStep(st, d, av) ==
    [w |-> Write(beginArrayElement(st.w), d, ArrayElem(d, av, st.i)),
     i |-> st.i + 1, done |-> st.i + 1 >= av.m_count]

RECURSIVE WriteElementsLoop(_, _, _)
WriteElementsLoop(st, d, av) ==
    IF st.done THEN st ELSE WriteElementsLoop(WriteElementsStep(st, d, av), d, av)

\* the for loop over an ArrayView
WriteElements(w, d, av) ==
    WriteElementsLoop([w |-> w, i |-> 0, done |-> av.m_count <= 0], d, av).w

\* One pass of the for loop over an ObjectView
WritePairsStep(st, d, ov) ==
    LET Pair(kvp) ==
            [w |-> Write(writeObjectKey(beginObjectElement(st.w), kvp.first), d, kvp.second),
             i |-> st.i + 1, done |-> st.i + 1 >= ov.m_count]
    IN  Pair(ObjectPair(d, ov, st.i))

RECURSIVE WritePairsLoop(_, _, _)
WritePairsLoop(st, d, ov) ==
    IF st.done THEN st ELSE WritePairsLoop(WritePairsStep(st, d, ov), d, ov)

\* the for loop over an ObjectView
WritePairs(w, d, ov) ==
    WritePairsLoop([w |-> w, i |-> 0, done |-> ov.m_count <= 0], d, ov).w

\* Write(Writer& writer, const Value& v), v addressing the arenas of d
Write(w, d, v) ==
    LET branch == FirstTrue(<<isNull(v), isBoolean(v), isNumber(v), isString(v), isArray(v),
                              isObject(v), TRUE>>)
    IN  CASE branch = 1 -> writeNull(w)
          [] branch = 2 -> writeBoolean(w, getBool(v))
          [] branch = 3 -> writeNumber(w, getDouble(v))
          [] branch = 4 -> writeString(w, getCStr(d, v))
          [] branch = 5 /\ ArrayView(d, v).m_count # 0 ->
                 endArray(WriteElements(beginArray(w), d, ArrayView(d, v)))
          [] branch = 5 /\ ArrayView(d, v).m_count = 0 -> writeEmptyArray(w)
          [] branch = 6 /\ ObjectView(d, v).m_count # 0 ->
                 endObject(WritePairs(beginObject(w), d, ObjectView(d, v)))
          [] branch = 6 /\ ObjectView(d, v).m_count = 0 -> writeEmptyObject(w)
          [] branch = 7 -> w

\* ToStream(os, doc, wp): the writer afterwards
ToStream(d, params, cast) == completeWriter(Write(Json5Writer(params, cast), d, d.data))
\* ToString(doc, wp)
ToStringDocument(d, params, cast) == ToStream(d, params, cast).m_os

-----------------------------------------------------------------------------
(* detail::Write(writer, in) and ToString for a reflected object            *)

RECURSIVE ReflectionWrite(_, _, _)

\* One pass of the for loop of WriteArray
WriteArrayStep(st, in, ty) ==
    [w |-> ReflectionWrite(beginArrayElement(st.w), in[st.i], ty),
     i |-> st.i + 1, done |-> st.i + 1 > Len(in)]

RECURSIVE WriteArrayLoop(_, _, _)
WriteArrayLoop(st, in, ty) ==
    IF st.done THEN st ELSE WriteArrayLoop(WriteArrayStep(st, in, ty), in, ty)

\* WriteArray(w, in, numItems): the for loop
WriteArray(w, in, ty) == WriteArrayLoop([w |-> w, i |-> 1, done |-> Len(in) = 0], in, ty).w

\* One pass of the for loop of WriteMap
WriteMapStep(st, in, ty) ==
    [w |-> ReflectionWrite(writeObjectKeyView(beginObjectElement(st.w), in[st.i][1]),
                           in[st.i][2], ty),
     i |-> st.i + 1, done |-> st.i + 1 > Len(in)]

RECURSIVE WriteMapLoop(_, _, _)
WriteMapLoop(st, in, ty) ==
    IF st.done THEN st ELSE WriteMapLoop(WriteMapStep(st, in, ty), in, ty)

\* WriteMap(w, in): the for loop
WriteMap(w, in, ty) == WriteMapLoop([w |-> w, i |-> 1, done |-> Len(in) = 0], in, ty).w

\* WriteTupleValue<T, Index>(w, t) for the member st.i
WriteTupleValue(st, in, ty) ==
    [w |-> ReflectionWrite(writeObjectKeyView(beginObjectElement(st.w), ty.names[st.i]),
                           in[st.i], ty.types[st.i]),
     i |-> st.i + 1, done |-> st.i + 1 > Len(ty.types)]

RECURSIVE WriteTupleLoop(_, _, _)
WriteTupleLoop(st, in, ty) ==
    IF st.done THEN st ELSE WriteTupleLoop(WriteTupleValue(st, in, ty), in, ty)

\* WriteTuple<T, Index>(w, t): WriteTupleValue for each member
WriteTuple(w, in, ty) ==
    WriteTupleLoop([w |-> w, i |-> 1, done |-> Len(ty.types) = 0], in, ty).w

\* TupleWriter::Write<FirstType, RemainingTypes...>(w, first, remaining...)
\* for the component st.i
TupleWriterStep(st, in, ty) ==
    [w |-> ReflectionWrite(beginArrayElement(st.w), in[st.i], ty.types[st.i]),
     i |-> st.i + 1, done |-> st.i + 1 > Len(ty.types)]

RECURSIVE TupleWriterLoop(_, _, _)
TupleWriterLoop(st, in, ty) ==
    IF st.done THEN st ELSE TupleWriterLoop(TupleWriterStep(st, in, ty), in, ty)

\* TupleWriter::Write<Types...>(w, obj...)
TupleWriter(w, in, ty) == TupleWriterLoop([w |-> w, i |-> 1, done |-> FALSE], in, ty).w

\* WriteEnum(w, in): the name of the enumerator, the underlying value of
\* one that is not in the table
WriteEnum(w, in, ty) ==
    IF \E i \in 1..Len(ty.names) : in = IntNum(i - 1)
    THEN writeStringView(w, ty.names[CHOOSE i \in 1..Len(ty.names) : in = IntNum(i - 1)])
    ELSE writeNumber(w, in)

\* ReflectionWriter<T>::Write(w, in)
ReflectionWrite(w, in, ty) ==
    CASE ty.t \in {"int", "double"} -> writeNumber(w, in)
      [] ty.t = "enum" -> WriteEnum(w, in, ty)
      [] ty.t = "bool" -> writeBoolean(w, in)
      [] ty.t = "string" -> writeStringView(w, in)
      [] ty.t \in {"vector", "array"} -> endArray(WriteArray(beginArray(w), in, ty.elem))
      [] ty.t = "map" -> endObject(WriteMap(beginObject(w), in, ty.elem))
      [] ty.t = "class" -> endObject(WriteTuple(beginObject(w), in, ty))
      [] ty.t = "tuple" -> endArray(TupleWriter(beginArray(w), in, ty))

\* ToString(in, wp) for a reflected object
ToStringReflect(in, ty, params, cast) ==
    completeWriter(ReflectionWrite(Json5Writer(params, cast), in, ty)).m_os

-----------------------------------------------------------------------------
(* DocumentParser and FromDocument.  The state of a walk holds the builder, *)
(* the Builder calls made so far with the Error::Type each reported, and   *)
(* the Error::Type returned so far.  A call through m_stack.back() of a    *)
(* ReflectionBuilder whose stack is empty ends the walk abnormally, which  *)
(* the model reports as "Crash".                                           *)

DocumentParser(b) == [b |-> b, log |-> <<>>, err |-> "None"]

\* The call of a Builder member function that gave the builder b
Walked(st, b, call) ==
    [b |-> b, log |-> Append(st.log, [call |-> call,
                                      type |-> IF call \in Reporting THEN b.rc ELSE "None"]),
     err |-> IF call \in Reporting THEN b.rc ELSE st.err]

\* m_stack.back() has nothing to return
Dangling(b) == b.kind = "ReflectionBuilder" /\ Len(b.m_stack) = 0

\* stringBufferAdd(std::string_view) of the ReflectionBuilder assigns m_str
stringBufferAddView(b, str) ==
    IF b.kind = "DocumentBuilder" THEN DB_stringBufferAdd(b, str) ELSE [b EXCEPT !.m_str = str]

\* setString(); stringBufferAdd(str); stringBufferEnd();
WalkString(st, str) ==
    LET End(s2) == Walked(s2, stringBufferEnd(s2.b), "stringBufferEnd")
        Buffer(s1) ==
            IF s1.err # "None" THEN s1
            ELSE IF Dangling(s1.b) THEN [s1 EXCEPT !.err = "Crash"]
            ELSE End(Walked(s1, stringBufferAddView(s1.b, str), "stringBufferAdd"))
    IN  IF Dangling(st.b) THEN [st EXCEPT !.err = "Crash"]
        ELSE Buffer(Walked(st, setString(st.b), "setString"))

RECURSIVE WalkValue(_, _, _)

\* One pass of the for loop over ObjectView(v)
WalkPairsStep(st, d, ov) ==
    LET Return(s) == [w |-> s, i |-> st.i, done |-> TRUE]
        Valued(s3) ==
            IF s3.err # "None" THEN Return(s3)
            ELSE [w |-> Walked(s3, addKeyedValue(s3.b), "addKeyedValue"),
                  i |-> st.i + 1, done |-> st.i + 1 >= ov.m_count]
        Key(s1, kvp) ==
            IF s1.err # "None" THEN Return(s1)
            ELSE IF Dangling(s1.b) THEN Return([s1 EXCEPT !.err = "Crash"])
            ELSE Valued(WalkValue(Walked(s1, addKey(s1.b), "addKey"), d, kvp.second))
        Pair(kvp) == Key(WalkString(st.w, kvp.first), kvp)
    IN  Pair(ObjectPair(d, ov, st.i))

RECURSIVE WalkPairsLoop(_, _, _)
WalkPairsLoop(st, d, ov) ==
    IF st.done THEN st ELSE WalkPairsLoop(WalkPairsStep(st, d, ov), d, ov)

\* One pass of the for loop over ArrayView(v)
WalkElementsStep(st, d, av) ==
    LET Return(s) == [w |-> s, i |-> st.i, done |-> TRUE]
        Valued(s1) ==
            IF s1.err # "None" THEN Return(s1)
            ELSE [w |-> Walked(s1, addArrayValue(s1.b), "addArrayValue"),
                  i |-> st.i + 1, done |-> st.i + 1 >= av.m_count]
    IN  Valued(WalkValue(st.w, d, ArrayElem(d, av, st.i)))

RECURSIVE WalkElementsLoop(_, _, _)
WalkElementsLoop(st, d, av) ==
    IF st.done THEN st ELSE WalkElementsLoop(WalkElementsStep(st, d, av), d, av)

\* return {m_builder.pop()}; behind a loop that was not left early
WalkPop(s) ==
    IF s.err # "None" THEN s
    ELSE IF Dangling(s.b) THEN [s EXCEPT !.err = "Crash"]
    ELSE Walked(s, pop(s.b), "pop")

\* DocumentParser::parseValue(v), v addressing the arenas of d
WalkValue(st, d, v) ==
    LET branch == FirstTrue(<<Dangling(st.b), isNumber(v), isBoolean(v), isNull(v),
                              isString(v), isObject(v), isArray(v), TRUE>>)
        Pairs(s1, ov) ==
            IF s1.err # "None" THEN s1
            ELSE WalkPop(WalkPairsLoop([w |-> s1, i |-> 0, done |-> ov.m_count <= 0], d, ov).w)
        Elements(s1, av) ==
            IF s1.err # "None" THEN s1
            ELSE WalkPop(WalkElementsLoop([w |-> s1, i |-> 0, done |-> av.m_count <= 0],
                                          d, av).w)
    IN  CASE branch = 1 -> [st EXCEPT !.err = "Crash"]
          [] branch = 2 -> Walked(st, setValueNumber(st.b, getDouble(v)), "setValue")
          [] branch = 3 -> Walked(st, setValueBool(st.b, getBool(v)), "setValue")
          [] branch = 4 -> Walked(st, setValueNull(st.b), "setValue")
          [] branch = 5 -> WalkString(st, getCStr(d, v))
          [] branch = 6 -> Pairs(Walked(st, pushObject(st.b), "pushObject"), ObjectView(d, v))
          [] branch = 7 -> Elements(Walked(st, pushArray(st.b), "pushArray"), ArrayView(d, v))
          [] branch = 8 -> [st EXCEPT !.err = "SyntaxError"]

\* FromDocument(doc, out): the Error::Type returned, the object afterwards
\* and the Builder calls made
FromDocument(d, o, ty) ==
    LET Result(st) == [err |-> st.err, obj |-> st.b.obj, log |-> st.log]
    IN  Result(WalkValue(DocumentParser(ReflectionBuilder(o, ty)), d, d.data))

-----------------------------------------------------------------------------
(* What the specification means by its words: deep equality, the plain     *)
(* JSON grammar, the JSON5 features of a text, the pretty layout.          *)

\* Does the root of d address a collection of d's own value arena?
IsFinalized(d) ==
    (isObject(d.data) \/ isArray(d.data)) /\ IsSlotAddr(d, d.data.p)

RECURSIVE DeepEq(_, _, _, _)
\* Deep equality of two values: same kind, same scalar, arrays element by
\* element, objects as unordered multisets of (key, value) pairs
DeepEq(d1, v1, d2, v2) ==
    LET t == type(v1)
    IN  /\ t = type(v2)
        /\ CASE t = "Null" -> TRUE
             [] t = "Boolean" -> getBool(v1) = getBool(v2)
             [] t = "Number" -> NumEq(v1.num, v2.num)
             [] t = "String" -> getCStr(d1, v1) = getCStr(d2, v2)
             [] t = "Array" ->
                  LET a1 == ArrayView(d1, v1)
                      a2 == ArrayView(d2, v2)
                  IN  /\ a1.m_count = a2.m_count
                      /\ \A i \in 0..a1.m_count - 1 :
                           DeepEq(d1, ArrayElem(d1, a1, i), d2, ArrayElem(d2, a2, i))
             [] t = "Object" ->
                  LET o1 == ObjectPairs(d1, ObjectView(d1, v1))
                      o2 == ObjectPairs(d2, ObjectView(d2, v2))
                  IN  /\ Len(o1) = Len(o2)
                      /\ \E f \in IndexPermutations(Len(o1)) :
                           \A i \in 1..Len(o1) :
                             /\ o1[i].first = o2[f[i]].first
                             /\ DeepEq(d1, o1[i].second, d2, o2[f[i]].second)

\* The keys of every object of a value
RECURSIVE KeysOf(_, _)
KeysOf(d, v) ==
    IF isArray(v)
    THEN LET av == ArrayView(d, v)
         IN  UNION {KeysOf(d, ArrayElem(d, av, i)) : i \in 0..av.m_count - 1}
    ELSE IF isObject(v)
    THEN LET ps == ObjectPairs(d, ObjectView(d, v))
         IN  {ps[i].first : i \in 1..Len(ps)}
               \cup UNION {KeysOf(d, ps[i].second) : i \in 1..Len(ps)}
    ELSE {}

\* A key the parser reads back as an unquoted identifier
IsIdentifier(k) ==
    /\ Len(k) > 0
    /\ isalpha(k[1]) \/ k[1] = Ord["_"]
    /\ \A i \in 2..Len(k) : isalpha(k[i]) \/ isdigit(k[i]) \/ k[i] = Ord["_"]

RECURSIVE JsonWs(_, _)
\* The position behind the JSON white space at position i of s
JsonWs(s, i) ==
    IF i <= Len(s) /\ s[i] \in {32, 9, 10, 13} THEN JsonWs(s, i + 1) ELSE i

RECURSIVE JsonStringBody(_, _)
\* The position behind the JSON string whose characters start at i (the
\* opening quote is read), 0 if there is none
JsonStringBody(s, i) ==
    IF i > Len(s) \/ s[i] < 32 THEN 0
    ELSE IF s[i] = Ord["\""] THEN i + 1
    ELSE IF s[i] # Ord["\\"] THEN JsonStringBody(s, i + 1)
    ELSE IF CharAt(s, i + 1) \in {Ord["\""], Ord["\\"], Ord["/"], Ord["b"], Ord["f"],
                                  Ord["n"], Ord["r"], Ord["t"]}
    THEN JsonStringBody(s, i + 2)
    ELSE IF CharAt(s, i + 1) = Ord["u"] /\ i + 5 <= Len(s)
              /\ \A j \in 2..5 : IsHexChar(s[i + j])
    THEN JsonStringBody(s, i + 6)
    ELSE 0

JsonString(s, i) == IF CharAt(s, i) = Ord["\""] THEN JsonStringBody(s, i + 1) ELSE 0

\* The position behind the JSON number at position i of s, 0 if there is none
JsonNumber(s, i) ==
    LET Exponent(i3, hasE, i4) ==
            LET Digits(nExp) == IF hasE /\ nExp = 0 THEN 0 ELSE IF hasE THEN i4 + nExp ELSE i3
            IN  Digits(IF hasE THEN DigitRun(s, i4) ELSE 0)
        Fraction(i2, hasDot, nFrac) ==
            LET Behind(i3) ==
                    Exponent(i3, CharAt(s, i3) \in {Ord["e"], Ord["E"]},
                             IF CharAt(s, i3 + 1) \in {Ord["+"], Ord["-"]} THEN i3 + 2 ELSE i3 + 1)
            IN  IF hasDot /\ nFrac = 0 THEN 0
                ELSE Behind(IF hasDot THEN i2 + 1 + nFrac ELSE i2)
        Point(i2, hasDot) == Fraction(i2, hasDot, IF hasDot THEN DigitRun(s, i2 + 1) ELSE 0)
        Integer(i1, nInt) ==
            IF nInt = 0 \/ (nInt > 1 /\ s[i1] = Ord["0"]) THEN 0
            ELSE Point(i1 + nInt, CharAt(s, i1 + nInt) = Ord["."])
        Signed(i1) == Integer(i1, DigitRun(s, i1))
    IN  Signed(IF CharAt(s, i) = Ord["-"] THEN i + 1 ELSE i)

RECURSIVE JsonValue(_, _)
RECURSIVE JsonElements(_, _)
RECURSIVE JsonMembers(_, _)

\* The position behind the JSON value at position i of s, 0 if there is none
JsonValue(s, i) ==
    LET c == CharAt(s, i)
        Open(j, close) == IF CharAt(s, j) = close THEN j + 1
                          ELSE IF c = Ord["["] THEN JsonElements(s, j) ELSE JsonMembers(s, j)
    IN  IF c = Ord["\""] THEN JsonString(s, i)
        ELSE IF c = Ord["["] THEN Open(JsonWs(s, i + 1), Ord["]"])
        ELSE IF c = Ord["{"] THEN Open(JsonWs(s, i + 1), Ord["}"])
        ELSE IF i + 3 <= Len(s) /\ SubSeq(s, i, i + 3) = Str(<<"t", "r", "u", "e">>)
        THEN i + 4
        ELSE IF i + 4 <= Len(s) /\ SubSeq(s, i, i + 4) = Str(<<"f", "a", "l", "s", "e">>)
        THEN i + 5
        ELSE IF i + 3 <= Len(s) /\ SubSeq(s, i, i + 3) = Str(<<"n", "u", "l", "l">>)
        THEN i + 4
        ELSE JsonNumber(s, i)

\* value *( ws "," ws value ) ws "]" from position i
JsonElements(s, i) ==
    LET Behind(j, k) ==
            IF j = 0 THEN 0
            ELSE IF CharAt(s, k) = Ord["]"] THEN k + 1
            ELSE IF CharAt(s, k) = Ord[","] THEN JsonElements(s, JsonWs(s, k + 1))
            ELSE 0
        Element(j) == Behind(j, JsonWs(s, j))
    IN  Element(JsonValue(s, i))

\* member *( ws "," ws member ) ws "}" from position i
JsonMembers(s, i) ==
    LET Behind(v, k) ==
            IF v = 0 THEN 0
            ELSE IF CharAt(s, k) = Ord["}"] THEN k + 1
            ELSE IF CharAt(s, k) = Ord[","] THEN JsonMembers(s, JsonWs(s, k + 1))
            ELSE 0
        Member(v) == Behind(v, JsonWs(s, v))
        Colon(j, c) ==
            Member(IF j # 0 /\ CharAt(s, c) = Ord[":"] THEN JsonValue(s, JsonWs(s, c + 1)) ELSE 0)
        Key(j) == Colon(j, JsonWs(s, j))
    IN  Key(JsonString(s, i))

\* Is s a text of the plain JSON grammar?
IsJson(s) ==
    LET Whole(j) == j # 0 /\ JsonWs(s, j) = Len(s) + 1
    IN  Whole(JsonValue(s, JsonWs(s, 1)))

RECURSIVE Skeleton(_, _, _)
\* The text s from position i on with every double-quoted string replaced
\* by one quote character
Skeleton(s, i, inString) ==
    IF i > Len(s) THEN <<>>
    ELSE IF inString
    THEN IF s[i] = Ord["\\"] THEN Skeleton(s, i + 2, TRUE)
         ELSE Skeleton(s, i + 1, s[i] # Ord["\""])
    ELSE IF s[i] = Ord["\""] THEN <<s[i]>> \o Skeleton(s, i + 1, TRUE)
    ELSE <<s[i]>> \o Skeleton(s, i + 1, FALSE)

RECURSIVE NextSignificant(_, _)
\* The first character of k at or behind position i that is not white space
NextSignificant(k, i) ==
    IF i > Len(k) THEN EndOfInput
    ELSE IF IsSpace(k[i]) THEN NextSignificant(k, i + 1) ELSE k[i]

RECURSIVE PrevSignificant(_, _)
PrevSignificant(k, i) ==
    IF i < 1 THEN EndOfInput
    ELSE IF IsSpace(k[i]) THEN PrevSignificant(k, i - 1) ELSE k[i]

\* The JSON5 features of a text, read off its skeleton k
HasTrailingComma(k) ==
    \E i \in 1..Len(k) :
      k[i] = Ord[","] /\ NextSignificant(k, i + 1) \in {Ord["}"], Ord["]"]}
HasComment(k) ==
    \E i \in 1..Len(k) - 1 : k[i] = Ord["/"] /\ k[i + 1] \in {Ord["/"], Ord["*"]}
HasSingleQuote(k) == \E i \in 1..Len(k) : k[i] = Ord["'"]
KeysDoubleQuoted(k) ==
    \A i \in 1..Len(k) : k[i] = Ord[":"] => PrevSignificant(k, i - 1) = Ord["\""]

\* The layout parameters of a writer: end of line, indentation and the
\* separator between a key and its value
LayoutEol(params) == IF params.compact THEN <<>> ELSE params.eol
LayoutIndent(params, depth) == IF params.compact THEN <<>> ELSE Rep(params.indentation, depth)
LayoutSeparator(params) == IF params.compact THEN Str(<<":">>) ELSE Str(<<":", " ">>)

\* A key as the layout writes it: "written" is what writeObjectKey writes,
\* "legal" is the key bare if it is an identifier and double-quoted if not
LayoutKey(w, k, keys) ==
    IF keys = "written" THEN writeObjectKey(w, k)
    ELSE IF IsIdentifier(k) THEN Out(w, k \o LayoutSeparator(w.m_wp))
    ELSE Out(writeString(w, k), LayoutSeparator(w.m_wp))

RECURSIVE LayoutValue(_, _, _, _, _)
RECURSIVE LayoutElements(_, _, _, _, _, _)
RECURSIVE LayoutPairs(_, _, _, _, _, _)

\* The layout of a value at nesting depth: a non-empty collection is its
\* opening bracket, its children one per line at depth + 1 with a comma
\* before the end of line between siblings, and its closing bracket on a line
\* of its own at depth; anything else is written as the writer writes it.
LayoutValue(w, d, v, depth, keys) ==
    LET av == ArrayView(d, v)
        ov == ObjectView(d, v)
        close == LayoutEol(w.m_wp) \o LayoutIndent(w.m_wp, depth)
    IN  IF isArray(v) /\ av.m_count # 0
        THEN Out(LayoutElements(Out(w, Str(<<"[">>)), d, av, 0, depth + 1, keys),
                 close \o Str(<<"]">>))
        ELSE IF isObject(v) /\ ov.m_count # 0
        THEN Out(LayoutPairs(Out(w, Str(<<"{">>)), d, ov, 0, depth + 1, keys),
                 close \o Str(<<"}">>))
        ELSE Write(w, d, v)

LayoutElements(w, d, av, i, depth, keys) ==
    IF i >= av.m_count THEN w
    ELSE LET lead == (IF i > 0 THEN Str(<<",">>) ELSE <<>>)
                       \o LayoutEol(w.m_wp) \o LayoutIndent(w.m_wp, depth)
         IN  LayoutElements(LayoutValue(Out(w, lead), d, ArrayElem(d, av, i), depth, keys),
                            d, av, i + 1, depth, keys)

LayoutPairs(w, d, ov, i, depth, keys) ==
    IF i >= ov.m_count THEN w
    ELSE LET lead == (IF i > 0 THEN Str(<<",">>) ELSE <<>>)
                       \o LayoutEol(w.m_wp) \o LayoutIndent(w.m_wp, depth)
             kvp == ObjectPair(d, ov, i)
         IN  LayoutPairs(LayoutValue(LayoutKey(Out(w, lead), kvp.first, keys), d, kvp.second,
                                     depth, keys),
                         d, ov, i + 1, depth, keys)

\* The text of a Document laid out so, with one end of line after the root
LayoutText(d, params, cst, keys) ==
    LayoutValue(Json5Writer(params, cst), d, d.data, 0, keys).m_os \o LayoutEol(params)

-----------------------------------------------------------------------------
(* The texts, the writer parameters and the Documents of the runs *)

InputTable ==
  <<
     \* 1: {x:1,y:2,z:3}
     [text |-> Str(<<"{", "x", ":", "1", ",", "y", ":", "2", ",", "z", ":", "3", "}">>),
      plain |-> Str(<<"{", "\"", "x", "\"", ":", "1", ",", "\"", "y", "\"", ":", "2", ",", "\"", "z", "\"", ":", "3", "}">>),
      root |-> "container", feature |-> "unquoted key"],
     \* 2: {'a':'s'}
     [text |-> Str(<<"{", "'", "a", "'", ":", "'", "s", "'", "}">>),
      plain |-> Str(<<"{", "\"", "a", "\"", ":", "\"", "s", "\"", "}">>),
      root |-> "container", feature |-> "single quotes"],
     \* 3: [1,2,]
     [text |-> Str(<<"[", "1", ",", "2", ",", "]">>),
      plain |-> Str(<<"[", "1", ",", "2", "]">>),
      root |-> "container", feature |-> "trailing comma"],
     \* 4: {a:[],}
     [text |-> Str(<<"{", "a", ":", "[", "]", ",", "}">>),
      plain |-> Str(<<"{", "\"", "a", "\"", ":", "[", "]", "}">>),
      root |-> "container", feature |-> "trailing comma"],
     \* 5: [1, // c\n 2]
     [text |-> Str(<<"[", "1", ",", " ", "/", "/", " ", "c", "\n", " ", "2", "]">>),
      plain |-> Str(<<"[", "1", ",", "2", "]">>),
      root |-> "container", feature |-> "line comment"],
     \* 6: [1, /* c */ 2]
     [text |-> Str(<<"[", "1", ",", " ", "/", "*", " ", "c", " ", "*", "/", " ", "2", "]">>),
      plain |-> Str(<<"[", "1", ",", "2", "]">>),
      root |-> "container", feature |-> "block comment"],
     \* 7: [1/* c */,2]
     [text |-> Str(<<"[", "1", "/", "*", " ", "c", " ", "*", "/", ",", "2", "]">>),
      plain |-> Str(<<"[", "1", ",", "2", "]">>),
      root |-> "container", feature |-> "block comment"],
     \* 8: [/***/1]
     [text |-> Str(<<"[", "/", "*", "*", "*", "/", "1", "]">>),
      plain |-> Str(<<"[", "1", "]">>),
      root |-> "container", feature |-> "block comment"],
     \* 9: [+1]
     [text |-> Str(<<"[", "+", "1", "]">>),
      plain |-> Str(<<"[", "1", "]">>),
      root |-> "container", feature |-> "leading plus"],
     \* 10: [.5,5.]
     [text |-> Str(<<"[", ".", "5", ",", "5", ".", "]">>),
      plain |-> Str(<<"[", "0", ".", "5", ",", "5", ".", "0", "]">>),
      root |-> "container", feature |-> "leading or trailing dot"],
     \* 11: {"a b":1}
     [text |-> Str(<<"{", "\"", "a", " ", "b", "\"", ":", "1", "}">>),
      plain |-> <<>>,
      root |-> "container", feature |-> ""],
     \* 12: [1.2345678]
     [text |-> Str(<<"[", "1", ".", "2", "3", "4", "5", "6", "7", "8", "]">>),
      plain |-> <<>>,
      root |-> "container", feature |-> ""],
     \* 13: [1,-Infinity]
     [text |-> Str(<<"[", "1", ",", "-", "I", "n", "f", "i", "n", "i", "t", "y", "]">>),
      plain |-> <<>>,
      root |-> "container", feature |-> ""],
     \* 14: {n:+nan}
     [text |-> Str(<<"{", "n", ":", "+", "n", "a", "n", "}">>),
      plain |-> <<>>,
      root |-> "container", feature |-> ""],
     \* 15: {a:1,a:2}
     [text |-> Str(<<"{", "a", ":", "1", ",", "a", ":", "2", "}">>),
      plain |-> <<>>,
      root |-> "container", feature |-> ""],
     \* 16: {a:2,a:1}
     [text |-> Str(<<"{", "a", ":", "2", ",", "a", ":", "1", "}">>),
      plain |-> <<>>,
      root |-> "container", feature |-> ""],
     \* 17: {a:1,b:2}
     [text |-> Str(<<"{", "a", ":", "1", ",", "b", ":", "2", "}">>),
      plain |-> <<>>,
      root |-> "container", feature |-> ""],
     \* 18: {b:2,a:1}
     [text |-> Str(<<"{", "b", ":", "2", ",", "a", ":", "1", "}">>),
      plain |-> <<>>,
      root |-> "container", feature |-> ""],
     \* 19: {a:1,b:3}
     [text |-> Str(<<"{", "a", ":", "1", ",", "b", ":", "3", "}">>),
      plain |-> <<>>,
      root |-> "container", feature |-> ""],
     \* 20: ["\u00e9",48000]
     [text |-> Str(<<"[", "\"", "\\", "u", "0", "0", "e", "9", "\"", ",", "4", "8", "0", "0", "0", "]">>),
      plain |-> <<>>,
      root |-> "container", feature |-> ""],
     \* 21: ["a\bz"]
     [text |-> Str(<<"[", "\"", "a", "\\", "b", "z", "\"", "]">>),
      plain |-> <<>>,
      root |-> "container", feature |-> ""],
     \* 22: {a:[1,{b:[]}]}
     [text |-> Str(<<"{", "a", ":", "[", "1", ",", "{", "b", ":", "[", "]", "}", "]", "}">>),
      plain |-> <<>>,
      root |-> "container", feature |-> ""],
     \* 23: [-5,1.5,true,null,"q"]
     [text |-> Str(<<"[", "-", "5", ",", "1", ".", "5", ",", "t", "r", "u", "e", ",", "n", "u", "l", "l", ",", "\"", "q", "\"", "]">>),
      plain |-> <<>>,
      root |-> "container", feature |-> ""],
     \* 24: [1e30]
     [text |-> Str(<<"[", "1", "e", "3", "0", "]">>),
      plain |-> <<>>,
      root |-> "container", feature |-> ""],
     \* 25: []
     [text |-> Str(<<"[", "]">>),
      plain |-> <<>>,
      root |-> "container", feature |-> ""],
     \* 26: {}
     [text |-> Str(<<"{", "}">>),
      plain |-> <<>>,
      root |-> "container", feature |-> ""],
     \* 27: 42
     [text |-> Str(<<"4", "2">>),
      plain |-> <<>>,
      root |-> "scalar", feature |-> ""],
     \* 28: "s"\n
     [text |-> Str(<<"\"", "s", "\"", "\n">>),
      plain |-> <<>>,
      root |-> "scalar", feature |-> ""],
     \* 29: "s"
     [text |-> Str(<<"\"", "s", "\"">>),
      plain |-> <<>>,
      root |-> "scalar", feature |-> ""],
     \* 30: true
     [text |-> Str(<<"t", "r", "u", "e">>),
      plain |-> <<>>,
      root |-> "scalar", feature |-> ""],
     \* 31: false
     [text |-> Str(<<"f", "a", "l", "s", "e">>),
      plain |-> <<>>,
      root |-> "scalar", feature |-> ""],
     \* 32: null 
     [text |-> Str(<<"n", "u", "l", "l", " ">>),
      plain |-> <<>>,
      root |-> "scalar", feature |-> ""],
     \* 33: [1 2]
     [text |-> Str(<<"[", "1", " ", "2", "]">>),
      plain |-> <<>>,
      root |-> "invalid", feature |-> "separator missing"],
     \* 34: {a 1}
     [text |-> Str(<<"{", "a", " ", "1", "}">>),
      plain |-> <<>>,
      root |-> "invalid", feature |-> "colon missing"],
     \* 35: [,1]
     [text |-> Str(<<"[", ",", "1", "]">>),
      plain |-> <<>>,
      root |-> "invalid", feature |-> "comma without member"],
     \* 36: [1
     [text |-> Str(<<"[", "1">>),
      plain |-> <<>>,
      root |-> "invalid", feature |-> ""],
     \* 37: [1,,2]
     [text |-> Str(<<"[", "1", ",", ",", "2", "]">>),
      plain |-> <<>>,
      root |-> "invalid", feature |-> "comma without member"],
     \* 38: {,a:1}
     [text |-> Str(<<"{", ",", "a", ":", "1", "}">>),
      plain |-> <<>>,
      root |-> "invalid", feature |-> "comma without member"],
     \* 39: {a:1,,b:2}
     [text |-> Str(<<"{", "a", ":", "1", ",", ",", "b", ":", "2", "}">>),
      plain |-> <<>>,
      root |-> "invalid", feature |-> "comma without member"],
     \* 40: {a:1 b:2}
     [text |-> Str(<<"{", "a", ":", "1", " ", "b", ":", "2", "}">>),
      plain |-> <<>>,
      root |-> "invalid", feature |-> "separator missing"],
     \* 41: {a:1 2}
     [text |-> Str(<<"{", "a", ":", "1", " ", "2", "}">>),
      plain |-> <<>>,
      root |-> "invalid", feature |-> "separator missing"],
     \* 42: {a}
     [text |-> Str(<<"{", "a", "}">>),
      plain |-> <<>>,
      root |-> "invalid", feature |-> "colon missing"]
  >>

Inputs == 1..Len(InputTable)
\* The texts parsed into a Document that an earlier parse has filled
RepeatInputs == {i \in Inputs : InputTable[i].root = "scalar"} \cup {1}

WriterParamsTable ==
  <<
     \* WriterParams(): two spaces, "\n", lenient
     WriterParams(Str(<<" ", " ">>), Str(<<"\n">>), FALSE, FALSE, FALSE),
     WriterParams(Str(<<" ", " ">>), Str(<<"\n">>), FALSE, FALSE, TRUE),
     WriterParams(Str(<<" ", " ">>), Str(<<"\n">>), TRUE, FALSE, FALSE),
     WriterParams(Str(<<" ", " ">>), Str(<<"\n">>), FALSE, TRUE, FALSE),
     WriterParams(Str(<<" ", " ">>), Str(<<"\n">>), TRUE, TRUE, FALSE),
     \* JSONCompatWriteParams of the tests
     WriterParams(<<>>, <<>>, TRUE, TRUE, TRUE),
     WriterParams(Str(<<"\t">>), Str(<<"\r", "\n">>), FALSE, FALSE, FALSE)
  >>

\* The number of parses into one Document
MaxParses == 2

\* The words the root of a Document can hold before anything is assigned to
\* it (Document() = default leaves the union uninitialized): zero, which is
\* the double 0.0, or a word that happens to carry a collection tag.
IndeterminateRoots == {ValueInitialized, Tagged(TypeArray, 0)}

\* json5::Document doc; with the k-th pair of buffers of the heap
NewDocument(root, k) == MkDocument(root, <<>>, <<>>, HeapAddr(2 * k + 1), HeapAddr(2 * k + 2))

\* No expression evaluated yet
NoExpr == [fn |-> "none", receiver |-> ValueInitialized, arg |-> <<>>, result |-> ValueInitialized]

\* No DocumentBuilder constructed by hand, nothing handed to one
NoBuilder == [kind |-> "none"]
NoTree == [t |-> "none"]
NoWriter == [m_os |-> <<>>]
NoCaller == [frames |-> <<>>, value |-> NoTree, set |-> 0]

\* doc == doc2 for two Documents
DocumentEq(d1, d2) == ValueEqOutcomes(d1, d1.data, d2, d2.data)

-----------------------------------------------------------------------------
(* The program that parses, writes, reads back and compares Documents       *)

Init ==
    /\ doc \in {NewDocument(root, 0) : root \in IndeterminateRoots}
    /\ int64Cast \in CastOutcomes
    /\ input = 0 /\ err = NoError /\ parses = 0
    /\ wp = WriterParamsTable[1] /\ text = <<>>
    /\ doc2 = NewDocument(ValueInitialized, 1) /\ err2 = NoError /\ eq = FALSE
    /\ obj = <<>> /\ objType = TBool /\ obj2 = <<>>
    /\ op = "new"
    /\ calls = <<>> /\ ncalls = 0 /\ expr = NoExpr
    /\ builder = NoBuilder /\ caller = NoCaller /\ writer = NoWriter

\* err = FromString(InputTable[i].text, doc)
ParseText(i) ==
    /\ op \in {"new", "FromString"}
    /\ parses < MaxParses
    /\ parses > 0 => i \in RepeatInputs
    /\ \E r \in {FromString(InputTable[i].text, doc)} : doc' = r.doc /\ err' = r.err
    /\ input' = i /\ parses' = parses + 1 /\ op' = "FromString"
    /\ UNCHANGED <<wp, int64Cast, text, doc2, err2, eq, obj, objType, obj2, calls, ncalls, expr, builder, caller, writer>>

\* text = ToString(doc, WriterParamsTable[p])
Serialize(p) ==
    /\ op = "FromString" /\ err.type = "None" /\ IsFinalized(doc)
    /\ wp' = WriterParamsTable[p]
    /\ text' = ToStringDocument(doc, WriterParamsTable[p], int64Cast)
    /\ op' = "ToString"
    /\ UNCHANGED <<doc, input, err, parses, int64Cast, doc2, err2, eq, obj, objType, obj2, calls, ncalls, expr, builder, caller, writer>>

\* Document doc2; err2 = FromString(str, doc2); and, when both parses gave a
\* collection, eq = (doc == doc2), one of the results the comparison can give
ReadAndCompare(str, root) ==
    \E r \in {FromString(str, NewDocument(root, 1))} :
        /\ doc2' = r.doc /\ err2' = r.err
        /\ eq' \in IF /\ err.type = "None" /\ IsFinalized(doc)
                       /\ r.err.type = "None" /\ IsFinalized(r.doc)
                    THEN DocumentEq(doc, r.doc)
                    ELSE {FALSE}

\* the text written is read back into a new Document
Reparse ==
    /\ op = "ToString"
    /\ \E root \in IndeterminateRoots : ReadAndCompare(text, root)
    /\ op' = "Reparse"
    /\ UNCHANGED <<doc, input, err, parses, wp, int64Cast, text, obj, objType, obj2, calls, ncalls, expr, builder, caller, writer>>

\* the plain JSON text of the same content is parsed into a new Document
ParsePlain ==
    /\ op = "FromString" /\ parses = 1 /\ InputTable[input].plain # <<>>
    /\ \E root \in IndeterminateRoots : ReadAndCompare(InputTable[input].plain, root)
    /\ op' = "ParsePlain"
    /\ UNCHANGED <<doc, input, err, parses, wp, int64Cast, text, obj, objType, obj2, calls, ncalls, expr, builder, caller, writer>>

\* another text is parsed into a new Document and the two are compared
Compare(j) ==
    /\ op = "FromString" /\ parses = 1 /\ err.type = "None" /\ IsFinalized(doc)
    /\ \E root \in IndeterminateRoots : ReadAndCompare(InputTable[j].text, root)
    /\ text' = InputTable[j].text
    /\ op' = "Compare"
    /\ UNCHANGED <<doc, input, err, parses, wp, int64Cast, obj, objType, obj2, calls, ncalls, expr, builder, caller, writer>>

Next ==
    \/ \E i \in Inputs : ParseText(i)
    \/ \E p \in 1..Len(WriterParamsTable) : Serialize(p)
    \/ Reparse
    \/ ParsePlain
    \/ \E j \in Inputs : Compare(j)

Spec == Init /\ [][Next]_vars

-----------------------------------------------------------------------------
(* The program that writes reflected objects and reads them back            *)

\* struct Inner { int x; JSON5_MEMBERS(x) };
Inner == TClass(<<Str(<<"x">>)>>, <<TInt>>)
\* struct Rec { int i; double d; bool b; std::string s; std::vector<int> v;
\*   std::map<std::string, int> m; std::array<int, 2> a; Inner n; JSON5_MEMBERS(...) };
Rec ==
    TClass(<<Str(<<"i">>), Str(<<"d">>), Str(<<"b">>), Str(<<"s">>), Str(<<"v">>),
             Str(<<"m">>), Str(<<"a">>), Str(<<"n">>)>>,
           <<TInt, TDouble, TBool, TString, TVector(TInt), TMap(TInt), TArray(TInt, 2), Inner>>)

\* A Rec whose double member is d and whose map has the one key k
RecOf(d, k) ==
    <<IntNum(7), d, TRUE, Str(<<"h", "i">>), <<IntNum(1), IntNum(2)>>,
      << <<k, IntNum(3)>> >>, <<IntNum(4), IntNum(5)>>, <<IntNum(6)>> >>

\* struct Vec3 { float x, y, z; } with Reflector<Vec3> a
\* TupleReflector<float, float, float>
Vec3 == TTuple(<<TDouble, TDouble, TDouble>>)

\* The objects the program constructs
ObjectTable ==
  <<
     [ty |-> TInt, obj |-> IntNum(7)],
     [ty |-> TInt, obj |-> IntNum(0 - 3)],
     [ty |-> TDouble, obj |-> Normalize(FALSE, 15, 0 - 1)],
     \* a double with more than six significant digits
     [ty |-> TDouble, obj |-> Normalize(FALSE, 12345678, 0 - 7)],
     [ty |-> TBool, obj |-> TRUE],
     [ty |-> TString, obj |-> Str(<<"h", "i">>)],
     \* std::string("a\0b", 3)
     [ty |-> TString, obj |-> <<Ord["a"], 0, Ord["b"]>>],
     [ty |-> TString, obj |-> Str(<<"a", "\"", "b", "\\">>)],
     [ty |-> TVector(TInt), obj |-> <<IntNum(1), IntNum(2)>>],
     [ty |-> TVector(TString), obj |-> <<>>],
     [ty |-> TMap(TInt), obj |-> << <<Str(<<"k">>), IntNum(3)>> >>],
     \* a map key that is no identifier
     [ty |-> TMap(TInt), obj |-> << <<Str(<<"a", " ", "b">>), IntNum(1)>> >>],
     [ty |-> TArray(TInt, 2), obj |-> <<IntNum(4), IntNum(5)>>],
     [ty |-> Rec, obj |-> RecOf(Normalize(FALSE, 15, 0 - 1), Str(<<"k">>))],
     [ty |-> Rec, obj |-> RecOf(Normalize(FALSE, 12345678, 0 - 7), Str(<<"k">>))],
     [ty |-> Rec, obj |-> RecOf(IntNum(2), Str(<<"a", " ", "b">>))]
  >>

\* The texts the program parses into an object of a type
TargetTable ==
  <<
     \* "a\u0000b" and a line end
     [ty |-> TString, feature |-> "NUL escape", text |-> Str(<<"\"", "a", "\\", "u", "0", "0", "0", "0", "b", "\"", "\n">>)],
     [ty |-> TString, feature |-> "string", text |-> Str(<<"\"", "h", "i", "\"", "\n">>)],
     [ty |-> TVector(TInt), feature |-> "vector", text |-> Str(<<"[", "1", ",", "2", "]">>)],
     [ty |-> Inner, feature |-> "class", text |-> Str(<<"{", "x", ":", "1", "}">>)],
     \* Vec3 of the tests, given two, four, three and no elements
     [ty |-> Vec3, feature |-> "tuple", text |-> Str(<<"[", "2", ",", "3", "]">>),
      elements |-> <<IntNum(2), IntNum(3)>>],
     [ty |-> Vec3, feature |-> "tuple", text |-> Str(<<"[", "2", ",", "3", ",", "4", ",", "5", "]">>),
      elements |-> <<IntNum(2), IntNum(3), IntNum(4), IntNum(5)>>],
     [ty |-> Vec3, feature |-> "tuple", text |-> Str(<<"[", "3", ",", "4", ",", "5", "]">>),
      elements |-> <<IntNum(3), IntNum(4), IntNum(5)>>],
     [ty |-> Vec3, feature |-> "tuple", text |-> Str(<<"[", "]">>), elements |-> <<>>],
     \* std::array<int, 2> given one, two and three elements
     [ty |-> TArray(TInt, 2), feature |-> "array", text |-> Str(<<"[", "4", "]">>),
      elements |-> <<IntNum(4)>>],
     [ty |-> TArray(TInt, 2), feature |-> "array", text |-> Str(<<"[", "4", ",", "5", "]">>),
      elements |-> <<IntNum(4), IntNum(5)>>],
     [ty |-> TArray(TInt, 2), feature |-> "array", text |-> Str(<<"[", "4", ",", "5", ",", "6", "]">>),
      elements |-> <<IntNum(4), IntNum(5), IntNum(6)>>],
     \* int i = 7 given null, true, "s", {} and []
     [ty |-> TInt, feature |-> "mismatch", text |-> Str(<<"n", "u", "l", "l">>),
      init |-> IntNum(7), expect |-> "NumberExpected"],
     [ty |-> TInt, feature |-> "mismatch", text |-> Str(<<"t", "r", "u", "e">>),
      init |-> IntNum(7), expect |-> "NumberExpected"],
     [ty |-> TInt, feature |-> "mismatch", text |-> Str(<<"\"", "s", "\"">>),
      init |-> IntNum(7), expect |-> "NumberExpected"],
     [ty |-> TInt, feature |-> "mismatch", text |-> Str(<<"{", "}">>),
      init |-> IntNum(7), expect |-> "NumberExpected"],
     [ty |-> TInt, feature |-> "mismatch", text |-> Str(<<"[", "]">>),
      init |-> IntNum(7), expect |-> "NumberExpected"],
     \* std::string str = "hi" given 5, and bool b = true given 5
     [ty |-> TString, feature |-> "mismatch", text |-> Str(<<"5">>),
      init |-> Str(<<"h", "i">>), expect |-> "StringExpected"],
     [ty |-> TBool, feature |-> "mismatch", text |-> Str(<<"5">>),
      init |-> TRUE, expect |-> "BooleanExpected"],
     \* double d = 5.5 given null
     [ty |-> TDouble, feature |-> "null into double", text |-> Str(<<"n", "u", "l", "l">>),
      init |-> Normalize(FALSE, 55, 0 - 1)],
     \* "Hahaha", the closing quote the last character
     [ty |-> TString, feature |-> "closing quote last",
      text |-> Str(<<"\"", "H", "a", "h", "a", "h", "a", "\"">>)],
     \* a TupleReflector<Inner, std::string> and a TupleReflector<Inner, int>
     \* given [{x:1},"s"], and a TupleReflector<std::string, Inner> given ["s",{x:1}]
     [ty |-> TTuple(<<Inner, TString>>), feature |-> "string behind object",
      text |-> Str(<<"[", "{", "x", ":", "1", "}", ",", "\"", "s", "\"", "]">>),
      strings |-> <<[path |-> <<2>>, value |-> Str(<<"s">>)]>>, expect |-> "None"],
     [ty |-> TTuple(<<Inner, TInt>>), feature |-> "string behind object",
      text |-> Str(<<"[", "{", "x", ":", "1", "}", ",", "\"", "s", "\"", "]">>),
      strings |-> <<>>, expect |-> "NumberExpected"],
     [ty |-> TTuple(<<TString, Inner>>), feature |-> "string before object",
      text |-> Str(<<"[", "\"", "s", "\"", ",", "{", "x", ":", "1", "}", "]">>),
      strings |-> <<[path |-> <<1>>, value |-> Str(<<"s">>)]>>, expect |-> "None"]
  >>

\* The object a text of the table is parsed into: the one the program
\* constructed, value-initialized where the table names none
TargetObject(t) ==
    IF "init" \in DOMAIN TargetTable[t] THEN TargetTable[t].init
    ELSE DefaultOf(TargetTable[t].ty)

InitReflect ==
    /\ doc = NewDocument(ValueInitialized, 0)
    /\ int64Cast \in CastOutcomes
    /\ input = 0 /\ err = NoError /\ parses = 0
    /\ wp = WriterParamsTable[1] /\ text = <<>>
    /\ doc2 = NewDocument(ValueInitialized, 1) /\ err2 = NoError /\ eq = FALSE
    /\ obj = <<>> /\ objType = TBool /\ obj2 = <<>>
    /\ op = "new"
    /\ calls = <<>> /\ ncalls = 0 /\ expr = NoExpr
    /\ builder = NoBuilder /\ caller = NoCaller /\ writer = NoWriter

\* T obj = ...;
Construct(k) ==
    /\ op = "new"
    /\ obj' = ObjectTable[k].obj /\ objType' = ObjectTable[k].ty
    /\ op' = "Construct"
    /\ UNCHANGED <<doc, input, err, parses, wp, int64Cast, text, doc2, err2, eq, obj2, calls, ncalls, expr, builder, caller, writer>>

\* T obj = ...; err = FromString(TargetTable[t].text, obj)
ParseInto(t) ==
    /\ op = "new"
    /\ \E r \in {FromStringReflect(TargetTable[t].text, TargetObject(t),
                                   TargetTable[t].ty)} :
           obj' = r.obj /\ err' = r.err
    /\ objType' = TargetTable[t].ty /\ input' = t /\ parses' = 1
    /\ op' = "FromString"
    /\ UNCHANGED <<doc, wp, int64Cast, text, doc2, err2, eq, obj2, calls, ncalls, expr, builder, caller, writer>>

\* text = ToString(obj, WriterParamsTable[p])
ToStringObj(p) ==
    /\ op = "Construct" \/ (op = "FromString" /\ err.type = "None")
    /\ wp' = WriterParamsTable[p]
    /\ text' = ToStringReflect(obj, objType, WriterParamsTable[p], int64Cast)
    /\ op' = "ToString"
    /\ UNCHANGED <<doc, input, err, parses, int64Cast, doc2, err2, eq, obj, objType, obj2, calls, ncalls, expr, builder, caller, writer>>

\* T obj2; err2 = FromString(text, obj2)
FromStringObj ==
    /\ op = "ToString"
    /\ \E r \in {FromStringReflect(text, DefaultOf(objType), objType)} :
           obj2' = r.obj /\ err2' = r.err
    /\ op' = "Reparse"
    /\ UNCHANGED <<doc, input, err, parses, wp, int64Cast, text, doc2, eq, obj, objType, calls, ncalls, expr, builder, caller, writer>>

NextReflect ==
    \/ \E k \in 1..Len(ObjectTable) : Construct(k)
    \/ \E t \in 1..Len(TargetTable) : ParseInto(t)
    \/ \E p \in 1..Len(WriterParamsTable) : ToStringObj(p)
    \/ FromStringObj

SpecReflect == InitReflect /\ [][NextReflect]_vars

-----------------------------------------------------------------------------
(* The program that parses into an enum registered with JSON5_ENUM          *)

\* JSON5_ENUM(MyEnum, Zero, First, Second, Third) of the tests
MyEnum ==
    TEnum(<<Str(<<"Z", "e", "r", "o">>), Str(<<"F", "i", "r", "s", "t">>),
            Str(<<"S", "e", "c", "o", "n", "d">>), Str(<<"T", "h", "i", "r", "d">>)>>)

\* The values the texts give the enum target: strings that are names, strings
\* that are none, and numbers
EnumValues ==
    <<[string |-> TRUE, chars |-> Str(<<"Z", "e", "r", "o">>)],
      [string |-> TRUE, chars |-> Str(<<"F", "i", "r", "s", "t">>)],
      [string |-> TRUE, chars |-> Str(<<"S", "e", "c", "o", "n", "d">>)],
      [string |-> TRUE, chars |-> Str(<<"T", "h", "i", "r", "d">>)],
      [string |-> TRUE, chars |-> Str(<<"F", "o", "u", "r", "t", "h">>)],
      [string |-> TRUE, chars |-> Str(<<"z", "e", "r", "o">>)],
      [string |-> TRUE, chars |-> Str(<<"Z", "e", "r">>)],
      [string |-> TRUE, chars |-> <<>>],
      [string |-> FALSE, chars |-> Str(<<"0">>)],
      [string |-> FALSE, chars |-> Str(<<"2">>)],
      [string |-> FALSE, chars |-> Str(<<"7">>)]>>

\* Where the enum target sits: MyEnum e; struct { MyEnum e; } with
\* JSON5_MEMBERS(e); std::vector<MyEnum>
EnumPositions == {"root", "property", "element"}
EnumTarget(pos) ==
    CASE pos = "root" -> MyEnum
      [] pos = "property" -> TClass(<<Str(<<"e">>)>>, <<MyEnum>>)
      [] pos = "element" -> TVector(MyEnum)

\* The text that gives the target at a position the value v; a line end
\* follows a root value
EnumText(pos, v) ==
    LET Value == IF v.string THEN Str(<<"\"">>) \o v.chars \o Str(<<"\"">>) ELSE v.chars
    IN  CASE pos = "root" -> Value \o Str(<<"\n">>)
          [] pos = "property" -> Str(<<"{", "e", ":">>) \o Value \o Str(<<"}">>)
          [] pos = "element" -> Str(<<"[">>) \o Value \o Str(<<"]">>)

InitEnum ==
    /\ doc = NewDocument(ValueInitialized, 0)
    /\ int64Cast \in CastOutcomes
    /\ input = 0 /\ err = NoError /\ parses = 0
    /\ wp = WriterParamsTable[1] /\ text = <<>>
    /\ doc2 = NewDocument(ValueInitialized, 1) /\ err2 = NoError /\ eq = FALSE
    /\ obj = <<>> /\ objType = TBool /\ obj2 = <<>>
    /\ op = "new"
    /\ calls = <<>> /\ ncalls = 0 /\ expr = NoExpr
    /\ builder = NoBuilder /\ caller = NoCaller /\ writer = NoWriter

\* T obj{}; err = FromString(EnumText(pos, EnumValues[k]), obj).  A scan
\* behind the last of Names reads what the build put there: it finds no
\* equal name and the parse goes on, or the read ends the program ("Crash").
ParseEnum(pos, k) ==
    /\ op = "new"
    /\ \E r \in {FromStringReflect(EnumText(pos, EnumValues[k]), DefaultOf(EnumTarget(pos)),
                                   EnumTarget(pos))} :
           \E outcome \in IF r.outOfBounds THEN {"goes on", "Crash"} ELSE {"goes on"} :
               IF outcome = "Crash"
               THEN obj' = DefaultOf(EnumTarget(pos))
                    /\ err' = [type |-> "Crash", line |-> 0, column |-> 0]
               ELSE obj' = r.obj /\ err' = r.err
    /\ text' = EnumText(pos, EnumValues[k]) /\ objType' = EnumTarget(pos)
    /\ input' = k /\ parses' = 1
    /\ expr' = [NoExpr EXCEPT !.fn = pos]
    /\ op' = "FromString"
    /\ UNCHANGED <<doc, wp, int64Cast, doc2, err2, eq, obj2, calls, ncalls, builder, caller, writer>>

\* text = ToString(obj, WriterParamsTable[p]) of the class parsed into
WriteEnumObj(p) ==
    /\ op = "FromString" /\ err.type = "None" /\ objType.t = "class"
    /\ wp' = WriterParamsTable[p]
    /\ text' = ToStringReflect(obj, objType, WriterParamsTable[p], int64Cast)
    /\ op' = "ToString"
    /\ UNCHANGED <<doc, input, err, parses, int64Cast, doc2, err2, eq, obj, objType, obj2, calls, ncalls, expr, builder, caller, writer>>

NextEnum ==
    \/ \E pos \in EnumPositions, k \in 1..Len(EnumValues) : ParseEnum(pos, k)
    \/ \E p \in 1..Len(WriterParamsTable) : WriteEnumObj(p)

SpecEnum == InitEnum /\ [][NextEnum]_vars

-----------------------------------------------------------------------------
(* The program that reads an object from a Document, and from the text the  *)
(* Document is written as                                                   *)

InitDocumentParser ==
    /\ doc = NewDocument(ValueInitialized, 0)
    /\ int64Cast \in CastOutcomes
    /\ input = 0 /\ err = NoError /\ parses = 0
    /\ wp = WriterParamsTable[1] /\ text = <<>>
    /\ doc2 = NewDocument(ValueInitialized, 1) /\ err2 = NoError /\ eq = FALSE
    /\ obj = <<>> /\ objType = TBool /\ obj2 = <<>>
    /\ op = "new"
    /\ calls = <<>> /\ ncalls = 0 /\ expr = NoExpr
    /\ builder = NoBuilder /\ caller = NoCaller /\ writer = NoWriter

\* Document doc; FromString(TargetTable[t].text, doc); T obj = ...;
\* err = FromDocument(doc, obj)
FromDocumentObj(t) ==
    /\ op = "new"
    /\ \E parsed \in {FromString(TargetTable[t].text, doc)} :
           /\ parsed.err = NoError
           /\ doc' = parsed.doc
           /\ \E r \in {FromDocument(parsed.doc, TargetObject(t), TargetTable[t].ty)} :
                  /\ obj' = r.obj /\ calls' = r.log
                  /\ err' = [type |-> r.err, line |-> 0, column |-> 0]
    /\ objType' = TargetTable[t].ty /\ input' = t /\ parses' = 1
    /\ op' = "FromDocument"
    /\ UNCHANGED <<wp, int64Cast, text, doc2, err2, eq, obj2, ncalls, expr, builder, caller, writer>>

\* text = ToString(doc, WriterParamsTable[p])
SerializeDocument(p) ==
    /\ op = "FromDocument"
    /\ wp' = WriterParamsTable[p]
    /\ text' = ToStringDocument(doc, WriterParamsTable[p], int64Cast)
    /\ op' = "ToStringDocument"
    /\ UNCHANGED <<doc, input, err, parses, int64Cast, doc2, err2, eq, obj, objType, obj2, calls, ncalls, expr, builder, caller, writer>>

\* T obj2 = ...; err2 = FromString(text, obj2)
FromSerialized ==
    /\ op = "ToStringDocument"
    /\ \E r \in {FromStringReflect(text, TargetObject(input), objType)} :
           obj2' = r.obj /\ err2' = r.err
    /\ op' = "FromSerialized"
    /\ UNCHANGED <<doc, input, err, parses, wp, int64Cast, text, doc2, eq, obj, objType, calls, ncalls, expr, builder, caller, writer>>

NextDocumentParser ==
    \/ \E t \in 1..Len(TargetTable) : FromDocumentObj(t)
    \/ \E p \in 1..Len(WriterParamsTable) : SerializeDocument(p)
    \/ FromSerialized

SpecDocumentParser == InitDocumentParser /\ [][NextDocumentParser]_vars

-----------------------------------------------------------------------------
(* The Parser call by call: the calls of one parse on the character source  *)
(* and the Builder, made one at a time.  op is the function called last,    *)
(* err the Error::Type a grammar check or a Builder call reported first,    *)
(* with the line and column of the character source at that call, and err2 *)
(* the Error returned to the caller of parse().                            *)

InitParser ==
    /\ doc = NewDocument(ValueInitialized, 0)
    /\ int64Cast \in CastOutcomes
    /\ input = 0 /\ err = NoError /\ parses = 0
    /\ wp = WriterParamsTable[1] /\ text = <<>>
    /\ doc2 = NewDocument(ValueInitialized, 1) /\ err2 = NoError /\ eq = FALSE
    /\ obj = <<>> /\ objType = TBool /\ obj2 = <<>>
    /\ op = "new"
    /\ calls = <<>> /\ ncalls = 0 /\ expr = NoExpr
    /\ builder = NoBuilder /\ caller = NoCaller /\ writer = NoWriter

\* FromString(InputTable[i].text, doc) is entered
EnterDocumentParse(i) ==
    /\ op = "new"
    /\ calls' = ParseCalls(InputTable[i].text, DocumentBuilder(doc))
    /\ text' = InputTable[i].text /\ input' = i /\ parses' = 1
    /\ op' = "parse"
    /\ UNCHANGED <<doc, err, wp, int64Cast, doc2, err2, eq, obj, objType, obj2, ncalls, expr, builder, caller, writer>>

\* FromString(TargetTable[t].text, obj) is entered
EnterObjectParse(t) ==
    /\ op = "new"
    /\ calls' = ParseCalls(TargetTable[t].text,
                           ReflectionBuilder(TargetObject(t), TargetTable[t].ty))
    /\ text' = TargetTable[t].text /\ input' = t /\ parses' = 1
    /\ obj' = TargetObject(t) /\ objType' = TargetTable[t].ty
    /\ op' = "parse"
    /\ UNCHANGED <<doc, err, wp, int64Cast, doc2, err2, eq, obj2, ncalls, expr, builder, caller, writer>>

\* The Error a call reported, or returned
ErrorOf(call) ==
    IF call.type = "None" THEN NoError
    ELSE [type |-> call.type, line |-> call.line, column |-> call.column]

\* The Parser makes its next call, or returns
ParserCall ==
    /\ op # "new" /\ ncalls < Len(calls)
    /\ ncalls' = ncalls + 1
    /\ op' = calls[ncalls + 1].call
    /\ err' = IF err = NoError /\ op' # "return" THEN ErrorOf(calls[ncalls + 1]) ELSE err
    /\ err2' = IF op' = "return" THEN ErrorOf(calls[ncalls + 1]) ELSE err2
    /\ UNCHANGED <<doc, input, parses, wp, int64Cast, text, doc2, eq, obj, objType, obj2, calls, expr, builder, caller, writer>>

NextParser ==
    \/ \E i \in 1..Len(InputTable) : EnterDocumentParse(i)
    \/ \E t \in 1..Len(TargetTable) : EnterObjectParse(t)
    \/ ParserCall

SpecParser == InitParser /\ [][NextParser]_vars

-----------------------------------------------------------------------------
(* Expressions on Values: the constructors, and operator[] on the values of *)
(* a parsed Document                                                        *)

\* The keys and the indices the program subscripts with
SubscriptKeys == {Str(<<"a">>), Str(<<"b">>), Str(<<"x">>), Str(<<"n", "o">>), <<>>}

\* Objects with a key given twice, and with the empty key: {a:1,b:2,a:3},
\* {"":1,a:2} and {a:1,"":2}
ObjectTexts ==
    <<Str(<<"{", "a", ":", "1", ",", "b", ":", "2", ",", "a", ":", "3", "}">>),
      Str(<<"{", "\"", "\"", ":", "1", ",", "a", ":", "2", "}">>),
      Str(<<"{", "a", ":", "1", ",", "\"", "\"", ":", "2", "}">>)>>
MaxIndex == 2

\* The doubles the program constructs Values of
Doubles ==
    {NumZero, IntNum(1), IntNum(0 - 5), Normalize(FALSE, 15, 0 - 1), Normalize(FALSE, 1, 30),
     MkNum("inf", FALSE, 0, 0), MkNum("inf", TRUE, 0, 0), NAN}

InitValue ==
    /\ doc \in {NewDocument(root, 0) : root \in IndeterminateRoots}
    /\ int64Cast \in CastOutcomes
    /\ input = 0 /\ err = NoError /\ parses = 0
    /\ wp = WriterParamsTable[1] /\ text = <<>>
    /\ doc2 = NewDocument(ValueInitialized, 1) /\ err2 = NoError /\ eq = FALSE
    /\ obj = <<>> /\ objType = TBool /\ obj2 = <<>>
    /\ op = "new"
    /\ calls = <<>> /\ ncalls = 0 /\ expr = NoExpr
    /\ builder = NoBuilder /\ caller = NoCaller /\ writer = NoWriter

Evaluated(fn, receiver, arg, result) ==
    [fn |-> fn, receiver |-> receiver, arg |-> arg, result |-> result]

\* err = FromString(InputTable[i].text, doc) gave a Document; (const Value&)doc
LoadDocument(i) ==
    /\ op = "new"
    /\ \E r \in {FromString(InputTable[i].text, doc)} :
           /\ r.err.type = "None" /\ IsFinalized(r.doc)
           /\ doc' = r.doc /\ err' = r.err
           /\ expr' = Evaluated("root", r.doc.data, <<>>, r.doc.data)
    /\ input' = i /\ parses' = 1 /\ op' = "FromString"
    /\ UNCHANGED <<wp, int64Cast, text, doc2, err2, eq, obj, objType, obj2, calls, ncalls, builder, caller, writer>>

\* err = FromString(ObjectTexts[k], doc); (const Value&)doc
LoadObject(k) ==
    /\ op = "new"
    /\ \E r \in {FromString(ObjectTexts[k], doc)} :
           /\ r.err.type = "None" /\ IsFinalized(r.doc)
           /\ doc' = r.doc /\ err' = r.err
           /\ expr' = Evaluated("root", r.doc.data, <<>>, r.doc.data)
    /\ text' = ObjectTexts[k] /\ parses' = 1 /\ op' = "FromString"
    /\ UNCHANGED <<input, wp, int64Cast, doc2, err2, eq, obj, objType, obj2, calls, ncalls, builder, caller, writer>>

\* ObjectView(v).find(key) for the object v evaluated last: the offset of
\* the iterator returned from begin()
FindKey(key) ==
    /\ op \in {"FromString", "operator[]"} /\ isObject(expr.result)
    /\ expr' = Evaluated("find", expr.result, key,
                         find(doc, ObjectView(doc, expr.result), key))
    /\ op' = "find"
    /\ UNCHANGED <<doc, input, err, parses, wp, int64Cast, text, doc2, err2, eq, obj, objType,
                   obj2, calls, ncalls, builder, caller, writer>>

\* Value(): a temporary, value-initialized
DefaultValue ==
    /\ op = "new"
    /\ expr' = Evaluated("Value()", ValueInitialized, <<>>, ValueInitialized)
    /\ op' = "Value"
    /\ UNCHANGED <<doc, input, err, parses, wp, int64Cast, text, doc2, err2, eq, obj, objType,
                   obj2, calls, ncalls, builder, caller, writer>>

\* Document doc; (const Value&)doc
DocumentRoot ==
    /\ op = "new"
    /\ expr' = Evaluated("Document()", doc.data, <<>>, doc.data)
    /\ op' = "Value"
    /\ UNCHANGED <<doc, input, err, parses, wp, int64Cast, text, doc2, err2, eq, obj, objType,
                   obj2, calls, ncalls, builder, caller, writer>>

\* Value(val)
ValueFromDouble(val) ==
    /\ op = "new"
    /\ expr' = Evaluated("Value(double)", ValueInitialized, val, ValueOfDouble(val))
    /\ op' = "Value"
    /\ UNCHANGED <<doc, input, err, parses, wp, int64Cast, text, doc2, err2, eq, obj, objType,
                   obj2, calls, ncalls, builder, caller, writer>>

\* v[key] for the Value v evaluated last
IndexByKey(key) ==
    /\ op \in {"FromString", "operator[]"}
    /\ expr' = Evaluated("operator[](key)", expr.result, key,
                         SubscriptKey(doc, expr.result, key))
    /\ op' = "operator[]"
    /\ UNCHANGED <<doc, input, err, parses, wp, int64Cast, text, doc2, err2, eq, obj, objType,
                   obj2, calls, ncalls, builder, caller, writer>>

\* v[index] for the Value v evaluated last
IndexByIndex(index) ==
    /\ op \in {"FromString", "operator[]"}
    /\ expr' = Evaluated("operator[](index)", expr.result, index,
                         SubscriptIndex(doc, expr.result, index))
    /\ op' = "operator[]"
    /\ UNCHANGED <<doc, input, err, parses, wp, int64Cast, text, doc2, err2, eq, obj, objType,
                   obj2, calls, ncalls, builder, caller, writer>>

NextValue ==
    \/ \E i \in Inputs : LoadDocument(i)
    \/ \E k \in 1..Len(ObjectTexts) : LoadObject(k)
    \/ \E key \in SubscriptKeys : FindKey(key)
    \/ DefaultValue
    \/ DocumentRoot
    \/ \E val \in Doubles : ValueFromDouble(val)
    \/ \E key \in SubscriptKeys : IndexByKey(key)
    \/ \E index \in 0..MaxIndex : IndexByIndex(index)

SpecValue == InitValue /\ [][NextValue]_vars

-----------------------------------------------------------------------------
(* The UTF-8 encoder of the builders against the decoder of the writer      *)

\* The codepoints encoded: the two-byte codes up to 0xFF, the first and the
\* last code of every longer form, and some codes between
Codepoints ==
    (128..255) \cup
    {2047, 2048, 8364, 65535, 65536, 128512, 1114111, 2097151, 2097152, 67108863, 67108864,
     1073741823, 1073741824, 2147483647}

InitUtf8 ==
    /\ doc = NewDocument(ValueInitialized, 0)
    /\ int64Cast = "indefinite"
    /\ input = 0 /\ err = NoError /\ parses = 0
    /\ wp = WriterParamsTable[2] /\ text = <<>>
    /\ doc2 = NewDocument(ValueInitialized, 1) /\ err2 = NoError /\ eq = FALSE
    /\ obj = <<>> /\ objType = TBool /\ obj2 = <<>>
    /\ op = "new"
    /\ calls = <<>> /\ ncalls = 0 /\ expr = NoExpr
    /\ builder = NoBuilder /\ caller = NoCaller /\ writer = NoWriter

\* std::string s; StringBufferAddUtf8(s, ch); s += 'z';
EncodeUtf8(ch) ==
    /\ op = "new"
    /\ expr' = Evaluated("StringBufferAddUtf8", <<>>, ch, Utf8Bytes(ch) \o <<Ord["z"]>>)
    /\ op' = "StringBufferAddUtf8"
    /\ UNCHANGED <<doc, input, err, parses, wp, int64Cast, text, doc2, err2, eq, obj, objType,
                   obj2, calls, ncalls, builder, caller, writer>>

\* Json5Writer(os, wp).writeString(s.c_str()) with wp.escapeUnicode: the
\* codepoint decoded from the first character, the bytes consumed for it, and
\* the text written
DecodeUtf8 ==
    /\ op = "StringBufferAddUtf8"
    /\ expr' = Evaluated("writeString", expr.result, expr.arg,
                         [ch |-> Utf8Decode(expr.result, 1),
                          consumed |-> Utf8Length(expr.result[1])])
    /\ text' = writeString(Json5Writer(wp, int64Cast), expr.result).m_os
    /\ op' = "writeString"
    /\ UNCHANGED <<doc, input, err, parses, wp, int64Cast, doc2, err2, eq, obj, objType,
                   obj2, calls, ncalls, builder, caller, writer>>

NextUtf8 ==
    \/ \E ch \in Codepoints : EncodeUtf8(ch)
    \/ DecodeUtf8

SpecUtf8 == InitUtf8 /\ [][NextUtf8]_vars

-----------------------------------------------------------------------------
(* A caller that drives a DocumentBuilder by hand, call by call, as the     *)
(* Parser and the test Build do.  caller.frames holds, for every collection *)
(* pushed and not yet popped, what the caller has added to it; caller.value *)
(* is the complete value the caller has set and not yet added.              *)

\* The scalars and the strings the caller sets
Scalars == {[t |-> "Number", num |-> IntNum(7)], [t |-> "Null"]}
Strings == {Str(<<"a">>), Str(<<"b">>)}
\* The nesting of collections, the number of slots of one collection, the
\* number of values (scalars, strings, collections) a caller makes, and the
\* number of slots of a Document that is built anew
MaxDepth == 2
MaxItems == 4
MaxSet == 5
MaxRebuilt == 3

InitBuilder ==
    /\ doc = NewDocument(ValueInitialized, 0)
    /\ int64Cast = "indefinite"
    /\ input = 0 /\ err = NoError /\ parses = 1
    /\ wp = WriterParamsTable[1] /\ text = <<>>
    /\ doc2 = NewDocument(ValueInitialized, 1) /\ err2 = NoError /\ eq = FALSE
    /\ obj = <<>> /\ objType = TBool /\ obj2 = <<>>
    /\ op = "DocumentBuilder"
    /\ calls = <<>> /\ ncalls = 0 /\ expr = NoExpr
    /\ builder = DocumentBuilder(doc) /\ caller = NoCaller /\ writer = NoWriter

Top(c) == c.frames[Len(c.frames)]
\* the caller is inside an object and its next string is a key
AwaitsKey(c) == c.frames # <<>> /\ Top(c).kind = "Object" /\ Len(Top(c).items) % 2 = 0
\* the caller may set the next value of the innermost open collection
AwaitsValue(c) ==
    /\ c.frames # <<>> /\ c.value = NoTree
    /\ Len(Top(c).items) < MaxItems
    /\ c.set < MaxSet

\* One call of the caller on the builder: the builder is a reference to doc
BuilderCall(b, c, name) ==
    /\ builder' = b /\ doc' = b.m_doc /\ caller' = c /\ op' = name
    /\ UNCHANGED <<input, err, parses, wp, int64Cast, text, doc2, err2, eq, obj, objType, obj2,
                   calls, ncalls, expr, writer>>

\* json5::DocumentBuilder b(doc); on a Document built before
NewBuilder ==
    /\ op = "pop" /\ caller.frames = <<>>
    /\ parses < MaxParses /\ Len(doc.m_values) <= MaxRebuilt
    /\ builder' = DocumentBuilder(doc) /\ op' = "DocumentBuilder"
    /\ caller' = [caller EXCEPT !.value = NoTree]
    /\ parses' = parses + 1
    /\ UNCHANGED <<doc, input, err, wp, int64Cast, text, doc2, err2, eq, obj, objType, obj2,
                   calls, ncalls, expr, writer>>

\* b.setValue(number) / b.setValue(nullptr)
CallSetValue(x) ==
    /\ AwaitsValue(caller) /\ ~AwaitsKey(caller)
    /\ BuilderCall(IF x.t = "Null" THEN setValueNull(builder) ELSE setValueNumber(builder, x.num),
                   [caller EXCEPT !.value = x, !.set = @ + 1], "setValue")

\* b.setString(); b.stringBufferAdd(ch) for every ch of str; b.stringBufferEnd()
CallString(str) ==
    /\ AwaitsValue(caller)
    /\ BuilderCall(stringBufferEnd(DB_stringBufferAdd(setString(builder), str)),
                   [caller EXCEPT !.value = [t |-> "String", str |-> str], !.set = @ + 1],
                   "stringBufferEnd")

\* b.pushObject() / b.pushArray()
CallPush(kind) ==
    /\ caller.value = NoTree /\ caller.set < MaxSet
    /\ \/ caller.frames = <<>> /\ op = "DocumentBuilder"
       \/ AwaitsValue(caller) /\ ~AwaitsKey(caller) /\ Len(caller.frames) < MaxDepth
    /\ BuilderCall(IF kind = "Object" THEN pushObject(builder) ELSE pushArray(builder),
                   [caller EXCEPT !.frames = Append(@, [kind |-> kind, items |-> <<>>]),
                                  !.set = @ + 1],
                   IF kind = "Object" THEN "pushObject" ELSE "pushArray")

\* b.pop()
CallPop ==
    /\ caller.frames # <<>> /\ caller.value = NoTree
    /\ Top(caller).kind = "Object" => AwaitsKey(caller)
    /\ BuilderCall(pop(builder),
                   [caller EXCEPT !.frames = SubSeq(@, 1, Len(@) - 1),
                                  !.value = [t |-> Top(caller).kind, items |-> Top(caller).items]],
                   "pop")

\* the value set last is added to the innermost open collection
Added(c) ==
    [c EXCEPT !.frames[Len(c.frames)].items = Append(@, c.value), !.value = NoTree]

\* b.addKey()
CallAddKey ==
    /\ caller.frames # <<>> /\ caller.value # NoTree
    /\ AwaitsKey(caller)
    /\ BuilderCall(addKey(builder), Added(caller), "addKey")

\* b.addKeyedValue()
CallAddKeyedValue ==
    /\ caller.frames # <<>> /\ caller.value # NoTree
    /\ Top(caller).kind = "Object" /\ ~AwaitsKey(caller)
    /\ BuilderCall(addKeyedValue(builder), Added(caller), "addKeyedValue")

\* b.addArrayValue()
CallAddArrayValue ==
    /\ caller.frames # <<>> /\ caller.value # NoTree
    /\ Top(caller).kind = "Array"
    /\ BuilderCall(addArrayValue(builder), Added(caller), "addArrayValue")

\* The scalars and strings a caller hands to operator+= and operator[]
Operands == Scalars \cup {[t |-> "String", str |-> str] : str \in Strings}

\* Value(number), Value(nullptr) or b.newString(str): the builder afterwards
\* and the Value
NewOperand(b, x) ==
    CASE x.t = "String" ->
           [b |-> DB_stringBufferAddByOffset(b, x.str),
            v |-> ValueOfType("String", Len(b.m_doc.m_strings))]
      [] x.t = "Null" -> [b |-> b, v |-> ValueOfNull]
      [] x.t = "Number" -> [b |-> b, v |-> ValueOfDouble(x.num)]

\* b += json5::Value(...) / b += b.newString(str)
CallPlusEquals(x) ==
    /\ AwaitsValue(caller) /\ Top(caller).kind = "Array"
    /\ \E made \in {NewOperand(builder, x)} :
           BuilderCall(DB_plusEquals(made.b, made.v),
                       [caller EXCEPT !.frames[Len(caller.frames)].items = Append(@, x),
                                      !.set = @ + 1],
                       "operator+=")

\* b[key] = json5::Value(...) / b[key] = b.newString(str): the right operand
\* is evaluated before operator[]
CallSubscript(key, x) ==
    /\ AwaitsValue(caller) /\ AwaitsKey(caller)
    /\ Len(Top(caller).items) + 2 <= MaxItems
    /\ \E made \in {NewOperand(builder, x)} :
           BuilderCall(DB_subscript(DB_stringBufferAddByOffset(made.b, key),
                                    Len(made.b.m_doc.m_strings), made.v),
                       [caller EXCEPT !.frames[Len(caller.frames)].items =
                                          @ \o <<[t |-> "String", str |-> key], x>>,
                                      !.set = @ + 1],
                       "operator[]")

\* json5::Document doc2 = doc; or doc2 = doc;
CopyDocument ==
    /\ op = "pop" /\ caller.frames = <<>>
    /\ doc2' = assignCopy(doc2, doc)
    /\ op' = "copy"
    /\ UNCHANGED <<doc, input, err, parses, wp, int64Cast, text, err2, eq, obj, objType, obj2,
                   calls, ncalls, expr, builder, caller, writer>>

\* json5::Document doc2 = std::move(doc); or doc2 = std::move(doc);
MoveDocument(how) ==
    /\ op = "pop" /\ caller.frames = <<>>
    /\ doc2' = assignRvalue(doc2, doc, how)
    /\ doc' = MovedFrom(doc2, doc, how)
    /\ op' = "move"
    /\ UNCHANGED <<input, err, parses, wp, int64Cast, text, err2, eq, obj, objType, obj2,
                   calls, ncalls, expr, builder, caller, writer>>

NextBuilder ==
    \/ NewBuilder
    \/ CopyDocument
    \/ \E how \in StringMoves : MoveDocument(how)
    \/ \E x \in Scalars : CallSetValue(x)
    \/ \E str \in Strings : CallString(str)
    \/ \E kind \in {"Object", "Array"} : CallPush(kind)
    \/ CallPop
    \/ CallAddKey
    \/ CallAddKeyedValue
    \/ CallAddArrayValue
    \/ \E x \in Operands : CallPlusEquals(x)
    \/ \E key \in Strings, x \in Operands : CallSubscript(key, x)

SpecBuilder == InitBuilder /\ [][NextBuilder]_vars

-----------------------------------------------------------------------------
(* A caller that drives a Json5Writer by hand, call by call, as Write and   *)
(* ReflectionWriter do.  caller.frames holds, for every container begun and *)
(* not ended, its kind, the children written, what the caller does next in *)
(* it (open: the next child or the end; key: writeObjectKey; value: the    *)
(* child's value), and m_depth and m_firstElement as they were before the  *)
(* call that began it.  caller.value is the root once it is written,       *)
(* caller.set the number of values written or begun.                       *)

\* The deepest nesting, the most children of a container, the most values
MaxNesting == 3
MaxChildren == 2
MaxWritten == 5

\* The WriterParams of the table the caller writes with
WriterChoices == {1, 3, 7}

InitWriter ==
    /\ doc = NewDocument(ValueInitialized, 0)
    /\ int64Cast = "indefinite"
    /\ input = 0 /\ err = NoError /\ parses = 0 /\ text = <<>>
    /\ doc2 = NewDocument(ValueInitialized, 1) /\ err2 = NoError /\ eq = FALSE
    /\ obj = <<>> /\ objType = TBool /\ obj2 = <<>>
    /\ op = "Json5Writer"
    /\ calls = <<>> /\ ncalls = 0 /\ expr = NoExpr
    /\ builder = NoBuilder /\ caller = NoCaller
    /\ \E p \in WriterChoices :
           wp = WriterParamsTable[p] /\ writer = Json5Writer(WriterParamsTable[p], "indefinite")

\* Is the caller about to write a value: the root, or the child begun last?
WritesValue(c) ==
    /\ c.set < MaxWritten
    /\ IF c.frames = <<>> THEN c.value = NoTree ELSE Top(c).next = "value"

\* The caller once the value it was about to write is written
Written(c) ==
    IF c.frames = <<>> THEN [c EXCEPT !.value = [t |-> "done"], !.set = @ + 1]
    ELSE [c EXCEPT !.frames[Len(c.frames)].children = @ + 1,
                   !.frames[Len(c.frames)].next = "open", !.set = @ + 1]

WriterCall(w, c, name) ==
    /\ writer' = w /\ caller' = c /\ op' = name
    /\ UNCHANGED <<doc, input, err, parses, wp, int64Cast, text, doc2, err2, eq, obj, objType,
                   obj2, calls, ncalls, expr, builder>>

\* writer.writeNull(), writer.writeEmptyArray() or writer.writeEmptyObject()
CallWriteLeaf(name) ==
    /\ WritesValue(caller)
    /\ WriterCall(CASE name = "writeNull" -> writeNull(writer)
                     [] name = "writeEmptyArray" -> writeEmptyArray(writer)
                     [] name = "writeEmptyObject" -> writeEmptyObject(writer),
                  Written(caller), name)

\* writer.beginArray() or writer.beginObject()
CallBegin(kind) ==
    /\ WritesValue(caller) /\ Len(caller.frames) < MaxNesting
    /\ WriterCall(IF kind = "Array" THEN beginArray(writer) ELSE beginObject(writer),
                  [caller EXCEPT !.set = @ + 1, !.frames =
                      Append(@, [kind |-> kind, children |-> 0, next |-> "open",
                                 depth |-> writer.m_depth, first |-> writer.m_firstElement])],
                  IF kind = "Array" THEN "beginArray" ELSE "beginObject")

\* writer.beginArrayElement() or writer.beginObjectElement()
CallBeginElement ==
    /\ caller.frames # <<>> /\ Top(caller).next = "open"
    /\ Top(caller).children < MaxChildren
    /\ IF Top(caller).kind = "Array"
       THEN WriterCall(beginArrayElement(writer),
                       [caller EXCEPT !.frames[Len(caller.frames)].next = "value"],
                       "beginArrayElement")
       ELSE WriterCall(beginObjectElement(writer),
                       [caller EXCEPT !.frames[Len(caller.frames)].next = "key"],
                       "beginObjectElement")

\* writer.writeObjectKey("k")
CallWriteObjectKey ==
    /\ caller.frames # <<>> /\ Top(caller).next = "key"
    /\ WriterCall(writeObjectKey(writer, Str(<<"k">>)),
                  [caller EXCEPT !.frames[Len(caller.frames)].next = "value"],
                  "writeObjectKey")

\* writer.endArray() or writer.endObject()
CallEnd ==
    /\ caller.frames # <<>> /\ Top(caller).next = "open"
    /\ WriterCall(IF Top(caller).kind = "Array" THEN endArray(writer) ELSE endObject(writer),
                  Written([caller EXCEPT !.frames = SubSeq(@, 1, Len(@) - 1), !.set = @ - 1]),
                  IF Top(caller).kind = "Array" THEN "endArray" ELSE "endObject")

\* writer.complete()
CallComplete ==
    /\ caller.frames = <<>> /\ caller.value # NoTree /\ op # "complete"
    /\ WriterCall(completeWriter(writer), caller, "complete")

NextWriter ==
    \/ \E name \in {"writeNull", "writeEmptyArray", "writeEmptyObject"} : CallWriteLeaf(name)
    \/ \E kind \in {"Array", "Object"} : CallBegin(kind)
    \/ CallBeginElement
    \/ CallWriteObjectKey
    \/ CallEnd
    \/ CallComplete

SpecWriter == InitWriter /\ [][NextWriter]_vars

-----------------------------------------------------------------------------
(* The program that writes a std::string_view of the first bytes of a       *)
(* buffer                                                                   *)

\* The number of characters of a view
MaxViewChars == 2

\* Characters of one to four bytes: a, ", U+00E9, U+20AC, U+1F600
ViewChars ==
    {Str(<<"a">>), Str(<<"\"">>), <<195, 169>>, <<226, 130, 172>>, <<240, 159, 152, 128>>}

\* What the buffer holds behind the view: enough bytes for every read of the
\* writer to stay inside the buffer
BehindViews ==
    {Rep(Str(<<"x">>), 3 * MaxViewChars + 1), Rep(Str(<<"\"">>), 3 * MaxViewChars + 1),
     Rep(<<0>>, 3 * MaxViewChars + 1)}

RECURSIVE Joined(_)
\* The bytes of a sequence of characters
Joined(chars) == IF Len(chars) = 0 THEN <<>> ELSE chars[1] \o Joined(Tail(chars))

\* const char buffer[] = ...; std::string_view str(buffer, len): text is the
\* buffer, input is len
InitViews ==
    /\ doc = NewDocument(ValueInitialized, 0)
    /\ int64Cast = "indefinite"
    /\ err = NoError /\ parses = 0
    /\ wp = WriterParamsTable[1]
    /\ doc2 = NewDocument(ValueInitialized, 1) /\ err2 = NoError /\ eq = FALSE
    /\ obj = <<>> /\ objType = TBool /\ obj2 = <<>>
    /\ op = "new"
    /\ calls = <<>> /\ ncalls = 0
    /\ builder = NoBuilder /\ caller = NoCaller /\ writer = NoWriter
    /\ \E chars \in UNION {[1..n -> ViewChars] : n \in 0..MaxViewChars}, behind \in BehindViews :
           /\ text = Joined(chars) \o behind
           /\ input = Len(Joined(chars))
           /\ expr = Evaluated("none", chars, <<>>, 0)

\* Json5Writer writer(os, WriterParamsTable[p]); writer.writeString(str)
WriteView(p) ==
    /\ op = "new"
    /\ wp' = WriterParamsTable[p]
    /\ \E w \in {Json5Writer(WriterParamsTable[p], int64Cast)} :
           /\ writer' = writeStringLen(w, text, input, Ord["\""], w.m_wp.escapeUnicode)
           /\ expr' = Evaluated("writeString", expr.receiver, <<>>,
                                StrAtExit(w, text, input, Ord["\""], w.m_wp.escapeUnicode))
    /\ op' = "writeString"
    /\ UNCHANGED <<doc, input, err, parses, int64Cast, text, doc2, err2, eq, obj, objType, obj2, calls, ncalls, builder, caller>>

NextViews == \E p \in 1..Len(WriterParamsTable) : WriteView(p)

SpecViews == InitViews /\ [][NextViews]_vars

-----------------------------------------------------------------------------
(* The tokenizer on comments and the Parser on number runs.  text is the    *)
(* character source, expr.arg what it was made of: "Line" or "Block" for a  *)
(* comment, "number" for a run of characters in an array.                   *)

\* The longest comment body and the longest run
MaxBody == 3
MaxRun == 3
MaxSigns == 2

BodyChars == {Ord["*"], Ord["/"], Ord["\n"], Ord["x"]}
RunHeads == {Ord["1"], Ord["-"], Ord["."]}
RunChars == {Ord["1"], Ord["."], Ord["e"], Ord["-"], Ord["a"], Ord["/"]}

\* A comment, closed or not, and the characters behind it
CommentTexts(kind) ==
    {(IF kind = "Block" THEN Str(<<"/", "*">>) ELSE Str(<<"/", "/">>)) \o body \o closer \o tail :
        body \in UNION {[1..n -> BodyChars] : n \in 0..MaxBody},
        closer \in {IF kind = "Block" THEN Str(<<"*", "/">>) ELSE Str(<<"\n">>), <<>>},
        tail \in {Str(<<"1">>), Str(<<"{">>), <<>>}}

\* An array of one run of characters, and of a run and a number
NumberTexts ==
    {(Str(<<"[">>) \o <<head>>) \o rest \o tail :
        head \in RunHeads,
        rest \in UNION {[1..n -> RunChars] : n \in 0..(MaxRun - 1)},
        tail \in {Str(<<"]">>), Str(<<",", "2", "]">>), Str(<<" ", "]">>)}}

\* What stands in front of a token: nothing, a space, a comment and a space
TokenLeads == {<<>>, Str(<<" ">>), Str(<<"/", "*", "x", "*", "/", " ">>)}
\* The digit 1 behind up to MaxSigns signs
SignRuns ==
    {signs \o Str(<<"1">>) :
        signs \in UNION {[1..n -> {Ord["+"], Ord["-"]}] : n \in 0..MaxSigns}}
\* What follows the token: the end of an array, of an object
TokenTails == {Str(<<"]">>), Str(<<"}">>)}
\* The text in front of the token of a tail
TokenOpener(tail) == IF tail = Str(<<"]">>) THEN Str(<<"[">>) ELSE Str(<<"{", "a", ":">>)

\* Root values, and what follows one in the input: whitespace and comments
\* only (BlankTrailers), or something else as well
RootTexts ==
    {Str(<<"[", "1", "]">>), Str(<<"{", "a", ":", "1", "}">>), Str(<<"[", "[", "]", "]">>),
     Str(<<"{", "}">>)}
BlankTrailers ==
    {<<>>, Str(<<" ">>), Str(<<"\n">>), Str(<<"/", "/", "x">>), Str(<<"/", "/", "x", "\n">>),
     Str(<<" ", "/", "*", "x", "*", "/", "\n">>)}
OtherTrailers ==
    {Str(<<"x">>), Str(<<"]">>), Str(<<"}">>), Str(<<",">>), Str(<<" ", "1">>),
     Str(<<"[", "2", "]">>), Str(<<"\n", "{", "}">>), Str(<<"/", "*", "x", "*", "/", "x">>),
     Str(<<"\"">>), Str(<<"/">>)}

InitTokens ==
    /\ doc = NewDocument(ValueInitialized, 0)
    /\ int64Cast = "indefinite"
    /\ input = 0 /\ err = NoError /\ parses = 0
    /\ wp = WriterParamsTable[1]
    /\ doc2 = NewDocument(ValueInitialized, 1) /\ err2 = NoError /\ eq = FALSE
    /\ obj = <<>> /\ objType = TBool /\ obj2 = <<>>
    /\ op = "new"
    /\ calls = <<>> /\ ncalls = 0
    /\ builder = NoBuilder /\ caller = NoCaller /\ writer = NoWriter
    /\ \/ \E kind \in {"Line", "Block"} :
            /\ text \in CommentTexts(kind)
            /\ expr = Evaluated("none", <<>>, kind, <<>>)
       \/ /\ text \in NumberTexts
          /\ expr = Evaluated("none", <<>>, "number", <<>>)
       \/ \E root \in RootTexts, trailer \in BlankTrailers \cup OtherTrailers :
            /\ text = root \o trailer
            /\ expr = Evaluated("none", [root |-> root, trailer |-> trailer], "root", <<>>)
       \/ \E lead \in TokenLeads, run \in SignRuns, tail \in TokenTails :
            /\ text = (lead \o run) \o tail
            /\ expr = Evaluated("none", [lead |-> lead, run |-> run, tail |-> tail], "sign", <<>>)

\* What a call of peekNextToken leaves: the token type, the cursor and the
\* Error
Seen(ps) == [tt |-> ps.tt, pos |-> ps.pos, err |-> ps.err]

\* Parser p(builder, text); TokenType tt = TokenType::Unknown; p.peekNextToken(tt)
PeekNextToken ==
    /\ op = "new" /\ expr.arg \in {"Line", "Block"}
    /\ expr' = Evaluated("peekNextToken", text, expr.arg,
                         Seen(peekNextToken(Parser(NoBuilder, text), "Unknown")))
    /\ op' = "peekNextToken"
    /\ UNCHANGED <<doc, input, err, parses, wp, int64Cast, text, doc2, err2, eq, obj, objType,
                   obj2, calls, ncalls, builder, caller, writer>>

\* err = FromString(text, doc)
ParseNumberText ==
    /\ op = "new" /\ expr.arg = "number"
    /\ \E r \in {FromString(text, doc)} : doc' = r.doc /\ err' = r.err
    /\ expr' = Evaluated("FromString", text, expr.arg, <<>>)
    /\ parses' = 1
    /\ op' = "FromString"
    /\ UNCHANGED <<input, wp, int64Cast, text, doc2, err2, eq, obj, objType,
                   obj2, calls, ncalls, builder, caller, writer>>

\* Parser p(builder, text); TokenType tt = TokenType::Unknown;
\* p.peekNextToken(tt); TokenType tt2 = TokenType::Unknown; p.peekNextToken(tt2)
PeekTwice ==
    /\ op = "new" /\ expr.arg = "sign"
    /\ \E first \in {peekNextToken(Parser(NoBuilder, text), "Unknown")} :
           expr' = Evaluated("peekNextToken twice", expr.receiver, expr.arg,
                             [first |-> Seen(first),
                              second |-> Seen(peekNextToken(first, "Unknown"))])
    /\ op' = "peekNextToken"
    /\ UNCHANGED <<doc, input, err, parses, wp, int64Cast, text, doc2, err2, eq, obj, objType,
                   obj2, calls, ncalls, builder, caller, writer>>

\* err = FromString(text, doc) for the text behind '[' or "{a:"
ParseSignText ==
    /\ op = "new" /\ expr.arg = "sign"
    /\ \E r \in {FromString(TokenOpener(expr.receiver.tail) \o text, doc)} :
           doc' = r.doc /\ err' = r.err
    /\ expr' = Evaluated("FromString", expr.receiver, expr.arg, <<>>)
    /\ parses' = 1
    /\ op' = "FromString"
    /\ UNCHANGED <<input, wp, int64Cast, text, doc2, err2, eq, obj, objType,
                   obj2, calls, ncalls, builder, caller, writer>>

\* err = FromString(text, doc) for a root value and what follows it
ParseRootText ==
    /\ op = "new" /\ expr.arg = "root"
    /\ \E r \in {FromString(text, doc)} : doc' = r.doc /\ err' = r.err
    /\ expr' = Evaluated("FromString", expr.receiver, expr.arg, <<>>)
    /\ parses' = 1
    /\ op' = "FromString"
    /\ UNCHANGED <<input, wp, int64Cast, text, doc2, err2, eq, obj, objType,
                   obj2, calls, ncalls, builder, caller, writer>>

NextTokens ==
    \/ ParseRootText
    \/ PeekNextToken
    \/ ParseNumberText
    \/ PeekTwice
    \/ ParseSignText

SpecTokens == InitTokens /\ [][NextTokens]_vars

-----------------------------------------------------------------------------
(* The loops of the Parser, pass by pass.  expr.fn is the member function   *)
(* whose loop runs on text, expr.receiver the state of the loop: the        *)
(* parser, the locals of the function and whether the loop has been left.   *)
(* calls holds the states the passes of the loop lead to, ncalls the number *)
(* of passes made.  The passes are worked out when the loop is entered, up  *)
(* to two more than the text has characters; a loop that is not left by     *)
(* then makes no further pass.                                              *)

\* The number of characters of a text
MaxLoopText == 3

LoopChars ==
    {Ord["["], Ord["]"], Ord["{"], Ord["a"], Ord[":"], Ord[","], Ord["1"], Ord[" "]}

\* Longer texts: nested collections, comments, strings with escapes, and
\* texts that end early
NestedTexts ==
    {Str(<<"[", "[", "1", "]", ",", "{", "a", ":", "[", "]", "}", "]">>),
     Str(<<"{", "a", ":", "{", "b", ":", "[", "1", ",", "]", "}", ",", "}">>),
     Str(<<"[", "/", "*", "x", "*", "/", "1", ",", "/", "/", "x", "\n", "2", "]">>),
     Str(<<"[", "[", "[", "1">>),
     Str(<<" ", "\n", "/", "/", "\n", "{", "}">>),
     Str(<<"'", "a", "'", "\n">>),
     Str(<<"/", "*", "/">>),
     Str(<<"'", "a", "\\", "n", "\\", "u", "0", "0", "4", "1", "'">>),
     Str(<<"/", "*", "x", "*", "*", "/", " ", "1">>),
     Str(<<"{", "a", ":", "'", "s", "'", " ", "b", ":", "1", "}">>)}

LoopTexts == UNION {[1..n -> LoopChars] : n \in 0..MaxLoopText} \cup NestedTexts

\* The builders a parser is constructed on
LoopBuilders ==
    {DocumentBuilder(NewDocument(ValueInitialized, 0)),
     ReflectionBuilder(<<>>, TVector(TVector(TInt))),
     ReflectionBuilder(<<>>, TMap(TMap(TVector(TInt))))}

Loops ==
    {"peekNextToken", "parseString", "parseNumber", "parseIdentifier", "parseObject",
     "parseArray"}

\* The member functions parseValue and parseObject call on a text, by its
\* first character
LoopsOn(str) ==
    LET ch == CharAt(str, 1)
    IN  {"peekNextToken"}
          \cup (IF ch = Ord["["] THEN {"parseArray"} ELSE {})
          \cup (IF ch = Ord["{"] THEN {"parseObject"} ELSE {})
          \cup (IF ch = Ord["'"] THEN {"parseString"} ELSE {})
          \cup (IF isalpha(ch) THEN {"parseIdentifier"} ELSE {})
          \cup (IF isdigit(ch) THEN {"parseNumber"} ELSE {})

\* The state in which a member function reaches its loop, called as
\* parseValue and parseObject call it
LoopEntry(fn, ps) ==
    LET Entered(p1, st) == IF Failed(p1) THEN [st EXCEPT !.ps = p1, !.done = TRUE] ELSE st
        String(p1) ==
            Entered(p1, [ps |-> p1, singleQuoted |-> peek(ps) = Ord["'"], done |-> FALSE])
        Identifier(p1) == Entered(p1, [ps |-> p1, done |-> FALSE])
        Collection(p1) ==
            Entered(p1, [ps |-> next(p1), expectComma |-> FALSE, done |-> FALSE])
    IN  CASE fn = "peekNextToken" -> [ps |-> ps, parsingComment |-> "None", done |-> FALSE]
          [] fn = "parseNumber" -> [ps |-> ps, buff |-> <<>>, done |-> FALSE]
          [] fn = "parseString" ->
               String(CheckBuilder(Called([next(ps) EXCEPT !.b = setString(@)], "setString")))
          [] fn = "parseIdentifier" ->
               Identifier(CheckBuilder(Called([ps EXCEPT !.b = setString(@)], "setString")))
          [] fn = "parseObject" ->
               Collection(CheckBuilder(Called([ps EXCEPT !.b = pushObject(@)], "pushObject")))
          [] fn = "parseArray" ->
               Collection(CheckBuilder(Called([ps EXCEPT !.b = pushArray(@)], "pushArray")))

\* A peekNextToken whose pass over a whitespace character does not reach the
\* next() behind the if / else if chain
PassKeepsSpace(fn, st) ==
    CASE fn = "peekNextToken" ->
           IF st.parsingComment = "None" /\ IsSpace(peek(st.ps)) /\ peek(st.ps) # Ord["\n"]
           THEN st ELSE PeekStep(st)
      [] fn = "parseNumber" -> NumberStep(st)
      [] fn = "parseString" -> StringStep(st)
      [] fn = "parseIdentifier" -> IdentifierStep(st)
      [] fn = "parseObject" -> ObjectStep(st)
      [] fn = "parseArray" -> ArrayStep(st)

\* One pass of the loop of a member function
LoopStep(fn, st) ==
    CASE fn = "peekNextToken" -> PeekStep(st)
      [] fn = "parseNumber" -> NumberStep(st)
      [] fn = "parseString" -> StringStep(st)
      [] fn = "parseIdentifier" -> IdentifierStep(st)
      [] fn = "parseObject" -> ObjectStep(st)
      [] fn = "parseArray" -> ArrayStep(st)

\* The passes made so far, with the state one more pass has led to
Passed(st, after) ==
    [seq |-> Append(st.seq, after), n |-> st.n - 1, done |-> after.done \/ st.n = 1]

RECURSIVE PassesLoop(_, _)
PassesLoop(fn, st) ==
    IF st.done THEN st ELSE PassesLoop(fn, Passed(st, LoopStep(fn, st.seq[Len(st.seq)])))

\* The states up to n passes of a loop lead to, from the state entry on
LoopPasses(fn, entry, n) ==
    Tail(PassesLoop(fn, [seq |-> <<entry>>, n |-> n, done |-> entry.done \/ n = 0]).seq)

InitLoops ==
    /\ doc = NewDocument(ValueInitialized, 0)
    /\ int64Cast = "indefinite"
    /\ input = 0 /\ err = NoError /\ parses = 0
    /\ wp = WriterParamsTable[1]
    /\ doc2 = NewDocument(ValueInitialized, 1) /\ err2 = NoError /\ eq = FALSE
    /\ obj = <<>> /\ objType = TBool /\ obj2 = <<>>
    /\ op = "new" /\ text = <<>>
    /\ calls = <<>> /\ ncalls = 0 /\ expr = NoExpr
    /\ builder = NoBuilder /\ caller = NoCaller /\ writer = NoWriter

\* Parser p(b, str); the member function fn is called and reaches its loop
Enter(str, fn, b) ==
    /\ op = "new"
    /\ b.kind = "DocumentBuilder" \/ str \in NestedTexts
    /\ text' = str
    /\ \E entry \in {LoopEntry(fn, Parser(b, str))} :
           /\ expr' = Evaluated(fn, entry, <<>>, <<>>)
           /\ calls' = LoopPasses(fn, entry, Len(str) + 2)
    /\ ncalls' = 0
    /\ op' = "enter"
    /\ UNCHANGED <<doc, input, err, parses, wp, int64Cast, doc2, err2, eq, obj, objType,
                   obj2, builder, caller, writer>>

\* The loop of the member function makes one pass
Pass ==
    /\ op \in {"enter", "pass"} /\ ~expr.receiver.done
    /\ ncalls < Len(calls)
    /\ expr' = [expr EXCEPT !.receiver = calls[ncalls + 1]]
    /\ ncalls' = ncalls + 1
    /\ op' = "pass"
    /\ UNCHANGED <<doc, input, err, parses, wp, int64Cast, text, doc2, err2, eq, obj, objType,
                   obj2, calls, builder, caller, writer>>

NextLoops ==
    \/ \E str \in LoopTexts : \E fn \in LoopsOn(str), b \in LoopBuilders : Enter(str, fn, b)
    \/ Pass

SpecLoops == InitLoops /\ [][NextLoops]_vars

\* The program runs: a loop that can make a pass makes it
SpecLoopsFair == SpecLoops /\ WF_vars(Pass)

-----------------------------------------------------------------------------
(* The claims                                                               *)

\* Both parses gave a Document whose root is a collection
BothParsed ==
    /\ err.type = "None" /\ IsFinalized(doc)
    /\ err2.type = "None" /\ IsFinalized(doc2)

\* C1: round trip.  Whenever a Document the parser produced has been written
\* with lenient options, pretty or compact, and the text has been parsed
\* again, that parse succeeded and gave a Document deep-equal to the first.
RoundTrip ==
    (op = "Reparse" /\ ~wp.jsonCompatible)
      => (BothParsed /\ DeepEq(doc, doc.data, doc2, doc2.data))

\* C2: reflection round trip.  Whenever the text ToString wrote with the
\* default WriterParams for a reflected object has been parsed into a new
\* object of the same type, the parse returned no error and the new object
\* equals the one written.
ReflectionRoundTrip ==
    (op = "Reparse" /\ wp = WriterParamsTable[1]) => (err2.type = "None" /\ obj2 = obj)

\* C3: object equality.  Whenever two Documents whose roots are objects have
\* been compared, operator== returned true exactly if their (key, value)
\* pairs are equal as unordered multisets.
ObjectEqualityIsMultisetEquality ==
    (op = "Compare" /\ BothParsed /\ isObject(doc.data) /\ isObject(doc2.data))
      => (eq <=> DeepEq(doc, doc.data, doc2, doc2.data))

\* C4: scalar root.  Whenever a text whose top-level value is a number, a
\* string, true, false or null has been parsed into a Document, new or
\* holding the collection of an earlier parse, FromString returned
\* InvalidRoot.
ScalarRootIsInvalidRoot ==
    (op = "FromString" /\ InputTable[input].root = "scalar") => err.type = "InvalidRoot"

\* The text of the example of the pretty layout
PrettyExample == Str(<<"{", "\n", " ", " ", "x", ":", " ", "1", ",", "\n", " ", " ", "y", ":", " ", "2", ",", "\n", " ", " ", "z", ":", " ", "3", "\n", "}", "\n">>)

\* C5: pretty layout.  Whenever a Document has been written in the lenient
\* non-compact mode, the text is the layout of its root: a non-empty
\* collection is its opening bracket, each child on a line of its own
\* indented by one copy of the indentation per nesting depth, a comma
\* directly before the end of line between siblings, the closing bracket on
\* a line of its own at the parent's indentation, and one end of line after
\* the root; and {x:1,y:2,z:3} with two spaces gives the text of the example.
PrettyLayout ==
    /\ (op = "ToString" /\ ~wp.jsonCompatible /\ ~wp.compact)
         => text = LayoutText(doc, wp, int64Cast, "written")
    /\ (op = "ToString" /\ InputTable[input].feature = "unquoted key"
          /\ wp = WriterParamsTable[1])
         => text = PrettyExample

\* The object {x:1,y:2,z:3} has been written with the default WriterParams
PrettyLayoutWitness ==
    /\ op = "ToString" /\ InputTable[input].feature = "unquoted key"
    /\ wp = WriterParamsTable[1]
    /\ text = PrettyExample

\* C6: grammar superset.  Whenever a text that uses an unquoted or
\* single-quoted key, a single-quoted string, a trailing comma, a comment
\* between tokens, a leading '+' or a leading or trailing '.' has been parsed,
\* and the plain JSON text of the same content has been parsed too, both
\* parses returned no error and the two Documents are deep-equal.
GrammarSupersetAccepted ==
    op = "ParsePlain" => (BothParsed /\ DeepEq(doc, doc.data, doc2, doc2.data))

\* C7: strict-mode suppression.  Whenever a Document has been written with
\* jsonCompatible set, the text, its strings aside, holds no comma directly
\* before a closing bracket, no comment and no single quote, and every colon
\* follows a double-quoted key.
StrictModeSuppression ==
    (op = "ToString" /\ wp.jsonCompatible)
      => LET k == Skeleton(text, 1, FALSE)
         IN  /\ ~HasTrailingComma(k)
             /\ ~HasComment(k)
             /\ ~HasSingleQuote(k)
             /\ KeysDoubleQuoted(k)

\* C8: valid output.  Whenever a Document has been written with
\* jsonCompatible set, compact or not, the text is a text of the plain JSON
\* grammar; and whenever a text written in any mode has been parsed again,
\* the parser accepted it.
OutputIsValidAndReparseable ==
    /\ (op = "ToString" /\ wp.jsonCompatible) => IsJson(text)
    /\ op = "Reparse" => err2.type = "None"

\* C9: lenient keys.  Whenever a Document has been written in lenient mode,
\* every key that is an identifier is written bare and every other key is
\* written as a double-quoted string.
KeysUnquotedOnlyWhereLegal ==
    (op = "ToString" /\ ~wp.jsonCompatible)
      => text = LayoutText(doc, wp, int64Cast, "legal")

\* C10: NUL escape.  Whenever the string literal with the escape \u0000 has
\* been parsed into a std::string, the parse returned no error and the string
\* holds a zero byte between the characters around the escape; and whenever
\* that string has been written with the default WriterParams, the text is
\* the text parsed.
NulEscapeFidelity ==
    /\ (op = "FromString" /\ TargetTable[input].feature = "NUL escape")
         => (err.type = "None" /\ obj = <<Ord["a"], 0, Ord["b"]>>)
    /\ (op = "ToString" /\ input > 0 /\ TargetTable[input].feature = "NUL escape"
          /\ wp = WriterParamsTable[1])
         => text = TargetTable[input].text

\* C11: number format behind an escape.  Whenever a Document has been written
\* with escapeUnicode set, the text outside its strings, and with it every
\* number, is the text outside the strings that is written for the same
\* Document with escapeUnicode clear.
EscapeKeepsNumberFormat ==
    (op = "ToString" /\ wp.escapeUnicode)
      => Skeleton(text, 1, FALSE)
           = Skeleton(ToStringDocument(doc, [wp EXCEPT !.escapeUnicode = FALSE], int64Cast),
                      1, FALSE)

FixedArraySize ==
    (op = "FromString" /\ TargetTable[input].feature = "array")
      => LET t == TargetTable[input]
         IN  IF Len(t.elements) = t.ty.n THEN err = NoError /\ obj = t.elements
             ELSE err.type = "WrongArraySize"

ClosingQuoteLast ==
    (op = "FromString" /\ TargetTable[input].feature = "closing quote last")
      => (err = NoError /\ obj = Str(<<"H", "a", "h", "a", "h", "a">>))

\* C16: no local recovery.  Once a Builder call has reported an Error::Type,
\* the next thing the Parser does is makeError with that type at the line and
\* column the character source has; and once makeError has been reached, by
\* a Builder call or by a grammar check, the next thing the Parser does is
\* to return the Error of that type, line and column: it calls neither
\* next() nor the Builder again.
NoLocalRecovery ==
    [][(err # NoError /\ op # "return")
         => /\ op' = IF op = "makeError" THEN "return" ELSE "makeError"
            /\ ErrorOf(calls[ncalls']) = err]_vars

\* A parse has returned the CommaExpected it reported with input left unread
NoLocalRecoveryWitness ==
    /\ op = "return" /\ err2 = err /\ err.type = "CommaExpected"
    /\ calls[ncalls - 1].call = "makeError"
    /\ Cardinality({k \in 1..ncalls : calls[k].call = "next"}) < Len(text)

\* C17: errors in a body.  Whenever a text has been parsed into a new
\* Document: a key or a value where the separator was due gave
\* CommaExpected; a comma with no member before it, leading or behind another
\* comma, gave SyntaxError; a key with no ':' behind it gave ColonExpected;
\* and one trailing comma before the closing bracket gave no error.
BodyErrorsDistinct ==
    (op = "FromString" /\ parses = 1)
      => LET f == InputTable[input].feature
         IN  /\ f = "separator missing" => err.type = "CommaExpected"
             /\ f = "comma without member" => err.type = "SyntaxError"
             /\ f = "colon missing" => err.type = "ColonExpected"
             /\ f = "trailing comma" => err.type = "None"

\* {a:1,,b:2} has been parsed and gave SyntaxError at the second comma
BodyErrorsDistinctWitness ==
    /\ op = "FromString" /\ parses = 1
    /\ InputTable[input].text = Str(<<"{", "a", ":", "1", ",", ",", "b", ":", "2", "}">>)
    /\ err = [type |-> "SyntaxError", line |-> 1, column |-> 6]

\* C18: compact serialization is idempotent.  Whenever the compact text of a
\* Document has been parsed again, the parse returned no error and the
\* compact text of the Document it gave is, character for character, the
\* text parsed.
CompactIdempotent ==
    (op = "Reparse" /\ wp.compact)
      => (err2.type = "None" /\ IsFinalized(doc2)
          /\ ToStringDocument(doc2, wp, int64Cast) = text)

\* the receiver of the subscript evaluated last has a property with that key
HasProperty ==
    /\ isObject(expr.receiver)
    /\ \E i \in 0..(ObjectView(doc, expr.receiver).m_count - 1) :
          ObjectPair(doc, ObjectView(doc, expr.receiver), i).first = expr.arg

\* the receiver of the subscript evaluated last has an element at that index
HasElement ==
    isArray(expr.receiver) /\ expr.arg < ArrayView(doc, expr.receiver).m_count

\* C19: indexing a Value by a key it has no property for (or that is not an
\* object), or by an index it has no element at (or that is not an array),
\* gives a Value for which isNull() holds; so does Value(), and so does the
\* root of a newly constructed Document.
IndexingGivesNull ==
    /\ (expr.fn = "operator[](key)" /\ ~HasProperty) => isNull(expr.result)
    /\ (expr.fn = "operator[](index)" /\ ~HasElement) => isNull(expr.result)
    /\ expr.fn \in {"Value()", "Document()"} => isNull(expr.result)

\* the ValueTypes whose predicate holds of the Value word v
TypesOf(v) ==
    {t \in {"Number", "Null", "Boolean", "String", "Array", "Object"} :
        CASE t = "Number" -> isNumber(v)
          [] t = "Null" -> isNull(v)
          [] t = "Boolean" -> isBoolean(v)
          [] t = "String" -> isString(v)
          [] t = "Array" -> isArray(v)
          [] t = "Object" -> isObject(v)}

\* C20: every Value word the program evaluates satisfies exactly one of
\* isNumber, isNull, isBoolean, isString, isArray, isObject, and type() is the
\* ValueType of that predicate; every double stored through Value(double),
\* negative infinity included, is a Number.
TagPartition ==
    expr.fn # "none"
      => /\ TypesOf(expr.result) = {type(expr.result)}
         /\ expr.fn = "Value(double)" => isNumber(expr.result)

RECURSIVE Encodes(_, _, _)
\* Is the Value v of d the value the caller made: the scalar or the string,
\* or a view of that size over those elements (those keys and values) in
\* that order?
Encodes(d, v, tree) ==
    CASE tree.t = "Number" -> isNumber(v) /\ v.num = tree.num
      [] tree.t = "Null" -> isNull(v)
      [] tree.t = "String" -> isString(v) /\ getCStr(d, v) = tree.str
      [] tree.t = "Array" ->
           /\ isArray(v)
           /\ ArrayView(d, v).m_count = Len(tree.items)
           /\ \A i \in 1..Len(tree.items) :
                Encodes(d, ArrayElem(d, ArrayView(d, v), i - 1), tree.items[i])
      [] tree.t = "Object" ->
           /\ isObject(v)
           /\ 2 * ObjectView(d, v).m_count = Len(tree.items)
           /\ \A i \in 1..(Len(tree.items) \div 2) :
                /\ ObjectPair(d, ObjectView(d, v), i - 1).first = tree.items[2 * i - 1].str
                /\ Encodes(d, ObjectPair(d, ObjectView(d, v), i - 1).second, tree.items[2 * i])

\* C21: pop() of a frame that received N slots (N elements, or N/2 keys and
\* N/2 values) appends exactly N + 1 slots to the value arena, the first the
\* number N; when the outermost frame is popped the root addresses its count
\* slot, and the views over the root and over every nested collection report
\* the sizes and iterate the elements the caller added, in insertion order.
CollectionEncoding ==
    [][op' = "pop"
         => /\ Len(doc'.m_values) = Len(doc.m_values) + Len(Top(caller).items) + 1
            /\ isNumber(doc'.m_values[Len(doc.m_values) + 1])
            /\ doc'.m_values[Len(doc.m_values) + 1].num = IntNum(Len(Top(caller).items))
            /\ caller'.frames = <<>>
                 => /\ doc'.data.p = doc'.values_data + SizeofValue * Len(doc.m_values)
                    /\ Encodes(doc', doc'.data, caller'.value)]_vars

\* a nested build is finalized: an object holding an array of two elements
CollectionEncodingWitness ==
    /\ op = "pop" /\ caller.frames = <<>>
    /\ caller.value.t = "Object" /\ Len(caller.value.items) = 2
    /\ caller.value.items[2].t = "Array" /\ Len(caller.value.items[2].items) = 2
    /\ Encodes(doc, doc.data, caller.value)

\* Does a String word address a byte of d's string arena, and a collection
\* word a slot of d's value arena?
AddressesOwnArena(d, v) ==
    /\ isString(v) => IsStringAddr(d, v.p)
    /\ (isArray(v) \/ isObject(v)) => IsSlotAddr(d, v.p)

\* C24: after the outermost pop of a build, the first or a later one into
\* the same Document, the root and every String, Array and Object slot of
\* the value arena hold an address inside the arenas of the Document.
RebasedAfterFinalize ==
    (op = "pop" /\ caller.frames = <<>>)
      => /\ AddressesOwnArena(doc, doc.data)
         /\ \A i \in 1..Len(doc.m_values) : AddressesOwnArena(doc, doc.m_values[i])

\* Do the root and every slot of d address d's own arenas?
Rebased(d) ==
    /\ AddressesOwnArena(d, d.data)
    /\ \A i \in 1..Len(d.m_values) : AddressesOwnArena(d, d.m_values[i])

\* C22: after doc2 = doc, for a finalized doc, doc2 is deep-equal to doc, the
\* root and every String, Array and Object slot of doc2 address doc2's own
\* arenas (which share no address with doc's), and doc is unchanged.
CopyIsDeepClone ==
    [][op' = "copy"
         => /\ doc' = doc
            /\ Rebased(doc2')
            /\ DeepEq(doc2', doc2'.data, doc, doc.data)]_vars

\* C23: after doc2 = std::move(doc) the root and every String, Array and
\* Object slot of doc2 hold addresses inside doc2's arenas, whatever became of
\* the buffers, and doc2 holds the value doc held before the move.
MoveKeepsContent ==
    op = "move" => (Rebased(doc2) /\ Encodes(doc2, doc2.data, caller.value))

\* C25: the bytes StringBufferAddUtf8 appends for a codepoint from 0x80 to
\* 0x7FFFFFFF (2 to 6 of them) are decoded by the writer to that codepoint,
\* and the writer consumes exactly those bytes: the character behind them is
\* written next.
Utf8Symmetry ==
    op = "writeString"
      => /\ expr.result.ch = expr.arg
         /\ expr.result.consumed = Len(expr.receiver) - 1
         /\ expr.result.consumed \in 2..6
         /\ text = (<<Ord["\""]>> \o (IF expr.arg <= 65535 THEN HexEscape(expr.arg) ELSE Str(<<"?">>)))
                     \o Str(<<"z", "\"">>)

\* the last codepoint, encoded in six bytes, has been decoded
Utf8SymmetryWitness ==
    /\ op = "writeString" /\ expr.arg = 2147483647
    /\ expr.receiver = <<253, 191, 191, 191, 191, 191, 122>>
    /\ expr.result.ch = 2147483647 /\ expr.result.consumed = 6

\* The frame on top of the stack of a caller of the Builder once the value it
\* waits for is complete
ValueDone(frame) ==
    CASE frame = "Root:value" -> "Root:done"
      [] frame = "Object:value" -> "Object:valueDone"
      [] frame = "Array:value" -> "Array:valueDone"
      [] OTHER -> "none"

\* One call of the log against the discipline of the Builder interface.  The
\* stack holds, innermost last, what every open frame waits for: an object its
\* next key or pop (key), the characters of the key (keyString), addKey
\* (keyDone), a value (value), addKeyedValue (valueDone); an array
\* beginArrayValue or pop (open), a value, addArrayValue; String the
\* characters of a string value.  A setString in a key string opens the key
\* string anew: parseIdentifier calls setString, and for a quoted key
\* parseString then calls it again.
BracketStep(st, log) ==
    LET call == log[st.i].call
        top == st.stack[Len(st.stack)]
        below == SubSeq(st.stack, 1, Len(st.stack) - 1)
        Go(stack) == [st EXCEPT !.i = @ + 1, !.stack = stack, !.done = st.i = Len(log)]
        Bad == [st EXCEPT !.ok = FALSE, !.done = TRUE]
        If(cond, stack) == IF cond THEN Go(stack) ELSE Bad
        Completed(stack) ==
            IF stack # <<>> /\ ValueDone(stack[Len(stack)]) # "none"
            THEN Go(Append(SubSeq(stack, 1, Len(stack) - 1), ValueDone(stack[Len(stack)])))
            ELSE Bad
        WantsValue == ValueDone(top) # "none"
    IN  CASE call \in {"next", "makeError", "return"} -> Go(st.stack)
          [] call = "isValidRoot" -> If(st.stack = <<"Root:done">>, st.stack)
          [] call = "setValue" -> IF WantsValue THEN Completed(st.stack) ELSE Bad
          [] call = "setString" ->
               IF top \in {"Object:key", "Object:keyString"}
               THEN Go(Append(below, "Object:keyString"))
               ELSE If(WantsValue, Append(st.stack, "String"))
          [] call \in {"stringBufferAdd", "stringBufferAddUtf8"} ->
               If(top \in {"String", "Object:keyString"}, st.stack)
          [] call = "stringBufferEnd" ->
               IF top = "Object:keyString" THEN Go(Append(below, "Object:keyDone"))
               ELSE IF top = "String" THEN Completed(below) ELSE Bad
          [] call = "pushObject" -> If(WantsValue, Append(st.stack, "Object:key"))
          [] call = "pushArray" -> If(WantsValue, Append(st.stack, "Array:open"))
          [] call = "addKey" -> If(top = "Object:keyDone", Append(below, "Object:value"))
          [] call = "addKeyedValue" -> If(top = "Object:valueDone", Append(below, "Object:key"))
          [] call = "beginArrayValue" -> If(top = "Array:open", Append(below, "Array:value"))
          [] call = "addArrayValue" -> If(top = "Array:valueDone", Append(below, "Array:open"))
          [] call = "pop" -> IF top \in {"Object:key", "Array:open"} THEN Completed(below) ELSE Bad
          [] OTHER -> Bad

RECURSIVE BracketLoop(_, _)
BracketLoop(st, log) == IF st.done THEN st ELSE BracketLoop(BracketStep(st, log), log)

\* Is the log one complete value, every call in its place?
WellBracketed(log) ==
    LET Result(st) == st.ok /\ st.stack = <<"Root:done">>
    IN  Result(BracketLoop([i |-> 1, stack |-> <<"Root:value">>, ok |-> TRUE, done |-> log = <<>>],
                           log))

\* C26: when parse succeeds, its Builder calls are well-bracketed: every
\* pushObject and pushArray has its one pop, every addKey stands behind one
\* complete key string and before one complete value and addKeyedValue, every
\* beginArrayValue before one complete value and addArrayValue, and pop is
\* never called without an open frame.
NestingDiscipline ==
    (op = "return" /\ err2 = NoError) => WellBracketed(calls)

\* a parse of nested collections has returned without error
NestingDisciplineWitness ==
    /\ op = "return" /\ err2 = NoError
    /\ Cardinality({i \in 1..Len(calls) : calls[i].call = "pop"}) >= 2
    /\ \E i \in 1..Len(calls) : calls[i].call = "addKeyedValue"
    /\ \E i \in 1..Len(calls) : calls[i].call = "addArrayValue"
    /\ WellBracketed(calls)

\* The Builder calls of a log other than the transfers of characters, each
\* with the Error::Type it reported; a setString() repeated for a quoted
\* key counts once
StructuralCalls ==
    {"setValue", "setString", "stringBufferEnd", "pushObject", "pushArray", "pop",
     "addKey", "addKeyedValue", "beginArrayValue", "addArrayValue"}
RECURSIVE BuilderCallsOf(_, _, _)
BuilderCallsOf(log, i, acc) ==
    IF i > Len(log) THEN acc
    ELSE LET c == log[i]
             keep == /\ c.call \in StructuralCalls
                     /\ ~(c.call = "setString" /\ Len(acc) > 0
                          /\ acc[Len(acc)].call = "setString")
         IN  BuilderCallsOf(log, i + 1,
                            IF keep THEN Append(acc, [call |-> c.call, type |-> c.type])
                            ELSE acc)

\* C27: FromDocument(D, target) makes the Builder calls that
\* FromString(ToString(D), target) makes, every array element between
\* beginArrayValue and addArrayValue and every property between addKey and
\* addKeyedValue, and the two return the same Error::Type and leave the
\* same object.
DriverEquivalence ==
    op = "FromSerialized" =>
        /\ err.type = err2.type
        /\ obj = obj2
        /\ BuilderCallsOf(calls, 1, <<>>)
             = BuilderCallsOf(ParseCalls(text, ReflectionBuilder(TargetObject(input), objType)),
                              1, <<>>)

\* The innermost open container of a stack of frames: the frame below the
\* characters of a string value, the top frame otherwise
Innermost(stack) ==
    IF stack[Len(stack)] = "String" THEN stack[Len(stack) - 1] ELSE stack[Len(stack)]

\* The frames open behind the first n calls of a log
FramesBehind(log, n) ==
    BracketLoop([i |-> 1, stack |-> <<"Root:value">>, ok |-> TRUE, done |-> n = 0],
                SubSeq(log, 1, n))

\* C28: behind every Builder call of a parse into a ReflectionBuilder,
\* m_processingKey is true when the innermost open container is an object
\* that waits for a property key, and false when it is an array, an object
\* whose property value is being read, or no container at all; and every
\* string given as a value is checked with allowString and stored in the
\* object at its position.
KeyModeInvariant ==
    /\ (/\ op \notin {"new", "parse", "next", "makeError", "return"}
        /\ calls[ncalls].key # "none" /\ err = NoError) =>
          \E st \in {FramesBehind(calls, ncalls)} :
              /\ st.ok
              /\ Innermost(st.stack) \in {"Object:key", "Object:keyString"}
                   => calls[ncalls].key = "true"
              /\ Innermost(st.stack) \in {"Root:value", "Root:done", "Object:value",
                                          "Array:open", "Array:value", "Array:valueDone"}
                   => calls[ncalls].key = "false"
    /\ (/\ op = "return" /\ calls[ncalls].key # "none"
        /\ "strings" \in DOMAIN TargetTable[input]) =>
          \E r \in {FromStringReflect(text, obj, objType)} :
              /\ r.err.type = TargetTable[input].expect
              /\ \A k \in 1..Len(TargetTable[input].strings) :
                     GetAt(r.obj, TargetTable[input].strings[k].path)
                       = TargetTable[input].strings[k].value

\* The last character of the comment that opens a text: the '/' of the first
\* "*/" behind the opener of a block comment (0 if there is none), the
\* character before the first newline of a line comment (the last character
\* of the text if there is none)
CommentEnd(str, kind) ==
    IF kind = "Block"
    THEN LET closes == {i \in 3..(Len(str) - 1) :
                            str[i] = Ord["*"] /\ str[i + 1] = Ord["/"]}
         IN  IF closes = {} THEN 0 ELSE Min(closes) + 1
    ELSE LET ends == {i \in 3..Len(str) : str[i] = Ord["\n"]}
         IN  IF ends = {} THEN Len(str) ELSE Min(ends) - 1

\* The text with its characters up to end replaced by spaces, newlines kept
Blanked(str, end) ==
    [i \in 1..Len(str) |-> IF i <= end /\ str[i] # Ord["\n"] THEN Ord[" "] ELSE str[i]]

\* C29: a block comment ends at the first "*/" behind its opener and a line
\* comment at the next newline, whatever the body holds of '*', '/' and
\* newlines; peekNextToken then gives the token type, the cursor and the
\* Error it gives for the text with the comment replaced by spaces; and a
\* block comment that is not closed gives UnexpectedEnd.
CommentSkipping ==
    op = "peekNextToken" =>
        IF expr.arg = "Block" /\ CommentEnd(text, expr.arg) = 0
        THEN expr.result.err.type = "UnexpectedEnd"
        ELSE expr.result
               = Seen(peekNextToken(Parser(NoBuilder, Blanked(text, CommentEnd(text, expr.arg))),
                                    "Unknown"))

\* The run of a text of NumberTexts: the characters behind '[' up to the next
\* whitespace, ',', '}' or ']'
RunOf(str) ==
    LET ends == {i \in 2..Len(str) :
                    IsSpace(str[i]) \/ str[i] \in {Ord[","], Ord["}"], Ord["]"]}}
    IN  SubSeq(str, 2, Min(ends) - 1)

\* C30: a number token is accepted only if its whole run, up to the next
\* whitespace, ',', '}' or ']', converts to a number; every other run makes
\* the parse fail with SyntaxError.
WholeRunConverts ==
    (op = "FromString" /\ expr.arg = "number") =>
        IF strtod(RunOf(text)).used = Len(RunOf(text))
        THEN err.type = "None"
        ELSE err.type = "SyntaxError"

\* The indentation of a writer at its depth
IndentOf(w) == Rep(w.m_wp.indentation, IF w.m_depth > 0 THEN w.m_depth ELSE 0)

\* C31: in every well-nested sequence of Writer calls, beginArrayElement and
\* beginObjectElement write a comma exactly when the container already has a
\* child, and nothing else writes one: endArray and endObject write the end
\* of line, the indentation and the bracket, and restore m_depth and
\* m_firstElement to what they were before the matching beginArray or
\* beginObject; once the root is closed m_firstElementStack is empty and
\* m_depth is 0, or -1 in compact mode.
CommaAndScope ==
    [][/\ op' \in {"beginArrayElement", "beginObjectElement"} =>
            writer'.m_os = writer.m_os
                             \o (IF Top(caller).children > 0 THEN Str(<<",">>) ELSE <<>>)
                             \o writer.m_eol \o IndentOf(writer)
       /\ op' \in {"endArray", "endObject"} =>
            /\ writer'.m_depth = Top(caller).depth
            /\ writer'.m_firstElement = Top(caller).first
            /\ writer'.m_os = writer.m_os \o writer.m_eol \o IndentOf(writer')
                                \o (IF op' = "endArray" THEN Str(<<"]">>) ELSE Str(<<"}">>))
       /\ op' \in {"writeNull", "writeEmptyArray", "writeEmptyObject", "writeObjectKey",
                   "beginArray", "beginObject", "complete"} =>
            /\ Len(writer'.m_os) > Len(writer.m_os) \/ (op' = "complete" /\ writer.m_eol = <<>>)
            /\ \A i \in (Len(writer.m_os) + 1)..Len(writer'.m_os) : writer'.m_os[i] # Ord[","]
       /\ (caller'.frames = <<>> /\ caller'.value # NoTree) =>
            /\ writer'.m_firstElementStack = <<>>
            /\ writer'.m_depth = IF wp.compact THEN 0 - 1 ELSE 0]_vars

\* a container inside a container has been ended behind its second child, and
\* the depth is that of the container around it
CommaAndScopeWitness ==
    /\ op \in {"endArray", "endObject"} /\ Len(caller.frames) = 1
    /\ caller.frames[1].children = 2
    /\ writer.m_depth = IF wp.compact THEN 0 - 1 ELSE 1
    /\ Cardinality({i \in 1..Len(writer.m_os) : writer.m_os[i] = Ord[","]}) = 2

\* The offsets from begin() of the properties of an object whose key is key
KeyOffsets(d, ov, key) == {i \in 0..(ov.m_count - 1) : ObjectPair(d, ov, i).first = key}

\* C32: ObjectView::find(key) returns the iterator to the first property, in
\* stored order, whose key equals key, and end() exactly when no property has
\* that key, the empty key included; operator[](key) on an object that has
\* the key returns the value of that first property.
FindIsLinearScan ==
    /\ op = "find" =>
         \E ov \in {ObjectView(doc, expr.receiver)} :
             expr.result = IF KeyOffsets(doc, ov, expr.arg) = {} THEN ov.m_count
                           ELSE Min(KeyOffsets(doc, ov, expr.arg))
    /\ (op = "operator[]" /\ expr.fn = "operator[](key)" /\ isObject(expr.receiver)) =>
         \E ov \in {ObjectView(doc, expr.receiver)} :
             KeyOffsets(doc, ov, expr.arg) # {} =>
                 expr.result = ObjectPair(doc, ov, Min(KeyOffsets(doc, ov, expr.arg))).second

\* The enumerator an enum target holds after the parse: the object at the
\* position of the target
EnumParsed == 
    CASE expr.fn = "root" -> obj
      [] expr.fn = "property" -> obj[1]
      [] expr.fn = "element" -> IF Len(obj) = 1 THEN obj[1] ELSE NumZero

\* C33: parsing a string that equals none of the names registered for an
\* enum into a target of that enum type returns InvalidEnum, wherever the
\* target sits (root, property value, array element); a string equal to a
\* registered name stores the matching enumerator with no error.
InvalidEnumReported ==
    (op = "FromString" /\ expr.fn \in EnumPositions /\ EnumValues[input].string) =>
        LET index == NameIndex(MyEnum.names, EnumValues[input].chars)
        IN  IF index = 0 THEN err.type = "InvalidEnum"
            ELSE err.type = "None" /\ EnumParsed = IntNum(index - 1)

\* What the code does hold to: a registered name stores its enumerator with
\* no error, and a number stores the enumerator of that value
EnumNameStored ==
    (op = "FromString" /\ expr.fn \in EnumPositions
       /\ NameIndex(MyEnum.names, EnumValues[input].chars) # 0) =>
        /\ err.type = "None"
        /\ EnumParsed = IntNum(NameIndex(MyEnum.names, EnumValues[input].chars) - 1)

\* No parse of a string into an enum target returns InvalidEnum
InvalidEnumNeverReturned == err.type # "InvalidEnum"

\* C34: peekNextToken is pure lookahead: it consumes only whitespace and
\* comments and never a significant character, so that a second call in a row
\* returns the same token type and leaves the same next character.
PeekIsLookahead ==
    (op = "peekNextToken" /\ expr.arg = "sign") =>
        /\ expr.result.first.err = NoError
        /\ expr.result.first.tt = "Number"
        /\ expr.result.first.pos = Len(expr.receiver.lead) + 1
        /\ expr.result.second = expr.result.first

\* C34, its consequence: a '+' is accepted only as the first character of a
\* number token, so that of the runs of signs and a digit only 1, +1 and -1
\* are numbers.
PlusOnlyLeadsNumber ==
    (op = "FromString" /\ expr.arg = "sign" /\ err = NoError) =>
        Len(expr.receiver.run) <= 2

\* The runs with two signs the parse accepts
AcceptedSignRuns ==
    (op = "FromString" /\ expr.arg = "sign" /\ Len(expr.receiver.run) = 3) =>
        (err = NoError) =
            \/ SubSeq(expr.receiver.run, 1, 2) = Str(<<"+", "-">>)
            \/ SubSeq(expr.receiver.run, 1, 2) = Str(<<"+", "+">>)

\* What the code does hold to: a call leaves the cursor on the first
\* significant character unless that character is '+', which it consumes
PeekConsumesPlusOnly ==
    (op = "peekNextToken" /\ expr.arg = "sign") =>
        LET Lead == Len(expr.receiver.lead)
            Cursor(from) == IF text[from] = Ord["+"] THEN from + 1 ELSE from
        IN  /\ expr.result.first.err = NoError /\ expr.result.second.err = NoError
            /\ expr.result.first.tt = "Number" /\ expr.result.second.tt = "Number"
            /\ expr.result.first.pos = Cursor(Lead + 1)
            /\ expr.result.second.pos = Cursor(expr.result.first.pos)

\* C35: a parse returns success only if the whole input was a single root
\* value: behind the closing bracket of the root value there is nothing but
\* whitespace and comments, and any other trailing character makes the parse
\* return an error.
RootIsWholeInput ==
    (op = "FromString" /\ expr.arg = "root") =>
        (err = NoError) = (expr.receiver.trailer \in BlankTrailers)

\* What the code does hold to: the parse returns on the closing bracket of
\* the root value with the Document of that value, whatever follows
TrailerNeverRead ==
    (op = "FromString" /\ expr.arg = "root") =>
        /\ err = NoError
        /\ doc = FromString(expr.receiver.root, NewDocument(ValueInitialized, 0)).doc

\* What writing one character of a view emits
CharWritten(bytes, escapeUnicode) ==
    IF bytes = Str(<<"\"">>) THEN Str(<<"\\", "\"">>)
    ELSE IF bytes[1] >= 128 /\ escapeUnicode
    THEN IF Utf8Decode(bytes, 1) <= 65535 THEN HexEscape(Utf8Decode(bytes, 1)) ELSE Str(<<"?">>)
    ELSE bytes

RECURSIVE ViewWritten(_, _)
\* Each character of a view written once, in order
ViewWritten(chars, escapeUnicode) ==
    IF Len(chars) = 0 THEN <<>>
    ELSE CharWritten(chars[1], escapeUnicode) \o ViewWritten(Tail(chars), escapeUnicode)

\* C36: writing a std::string_view of length len, Json5Writer reads and emits
\* only the bytes at positions 0..len-1, with unicode escaping on or off and
\* for every mix of single-byte and multi-byte characters: it reads no byte at
\* position len or beyond and emits each character of the view exactly once.
ViewBytesOnly ==
    op = "writeString" =>
        /\ expr.result <= input
        /\ writer.m_os = (Str(<<"\"">>) \o ViewWritten(expr.receiver, wp.escapeUnicode))
                             \o Str(<<"\"">>)

\* What the code does hold to: it emits each character of the view once and
\* nothing else, and reads the one byte behind the view, unless escapeUnicode
\* is set and the view holds a character of more than one byte
ViewWrittenWithoutEscapes ==
    (op = "writeString"
       /\ (~wp.escapeUnicode \/ \A k \in 1..Len(expr.receiver) : Len(expr.receiver[k]) = 1)) =>
        /\ expr.result = input + 1
        /\ writer.m_os = (Str(<<"\"">>) \o ViewWritten(expr.receiver, wp.escapeUnicode))
                             \o Str(<<"\"">>)

\* With escapeUnicode set, every pass of the loop counts one byte of len
\* whatever it consumed: the loop makes len passes and is left one byte
\* behind those
ViewOverrun ==
    (op = "writeString" /\ wp.escapeUnicode) =>
        /\ expr.result >= input + 1
        /\ (\E k \in 1..Len(expr.receiver) : Len(expr.receiver[k]) > 1) => expr.result > input + 1

RECURSIVE SumOf(_)
\* The sum of a sequence of numbers
SumOf(counts) == IF Len(counts) = 0 THEN 0 ELSE counts[1] + SumOf(Tail(counts))

\* The stacks of the builder against the collections the caller has open
StacksAgree ==
    /\ Len(builder.m_stack) = Len(builder.m_counts)
    /\ Len(builder.m_counts) = Len(caller.frames)
    /\ \A i \in 1..Len(caller.frames) : builder.m_counts[i] = Len(caller.frames[i].items)
    /\ Len(builder.m_values) = SumOf(builder.m_counts)
    /\ (op = "pop" /\ caller.frames = <<>>) =>
           builder.m_stack = <<>> /\ builder.m_counts = <<>> /\ builder.m_values = <<>>

\* C37: after any well-nested sequence of calls on a DocumentBuilder m_stack
\* and m_counts have equal length, one frame for every collection pushed and
\* not yet popped whose counter is the number of slots the caller added to it,
\* and m_values holds as many slots as the counters of the open frames sum up
\* to; pop() removes exactly the slots of the innermost frame from m_values,
\* and after the outermost pop m_stack, m_counts and m_values are empty.
BuilderStackInvariant ==
    [][/\ StacksAgree'
       /\ op' = "pop"
            => builder'.m_values
                 = SubSeq(builder.m_values, 1,
                          Len(builder.m_values) - builder.m_counts[Len(builder.m_counts)])]_vars

\* an inner collection filled through operator[] and operator+= is popped
\* while the outer one holds slots
BuilderStackInvariantWitness ==
    /\ op = "pop" /\ Len(caller.frames) = 1
    /\ Len(caller.value.items) >= 2
    /\ builder.m_counts = <<1>> /\ Len(builder.m_values) = 1

\* The nesting of the brackets of a text up to position i, and the deepest
\* nesting the text reaches
RECURSIVE NestingAt(_, _)
NestingAt(str, i) ==
    IF i = 0 THEN 0
    ELSE NestingAt(str, i - 1)
           + (IF str[i] \in {Ord["["], Ord["{"]} THEN 1
              ELSE IF str[i] \in {Ord["]"], Ord["}"]} THEN 0 - 1 ELSE 0)
NestingDepth(str) == Max({NestingAt(str, i) : i \in 0..Len(str)})

\* The activations of parseObject and parseArray open after the calls of a
\* log: one for every pushObject / pushArray that no pop has followed
RECURSIVE OpenAfter(_, _)
OpenAfter(log, n) ==
    IF n = 0 THEN 0
    ELSE OpenAfter(log, n - 1)
           + (IF log[n].call \in {"pushObject", "pushArray"} THEN 1
              ELSE IF log[n].call = "pop" THEN 0 - 1 ELSE 0)

\* Every pass of a loop returns or consumes at least one character
PassConsumes ==
    [][op' = "pass"
         => expr'.receiver.done \/ expr'.receiver.ps.pos > expr.receiver.ps.pos]_vars

\* The recursion of parseValue is never deeper than the nesting of the text
RecursionBounded ==
    op \in {"enter", "pass"} =>
        \A n \in 0..Len(expr.receiver.ps.log) :
            OpenAfter(expr.receiver.ps.log, n) <= NestingDepth(text)

\* C38: for every finite input and every Builder the parse terminates with a
\* result or an error: every pass of the loops of peekNextToken, parseString,
\* parseNumber, parseIdentifier, parseObject and parseArray returns or
\* consumes at least one character of the input, the recursion is never
\* deeper than the nesting of the input, and every loop is left.
ParseTerminates ==
    /\ PassConsumes
    /\ []RecursionBounded
    /\ (op = "enter") ~> (op \in {"enter", "pass"} /\ expr.receiver.done)

\* the loop of parseArray is left after passes over a nested array and an
\* object of the text
ParseTerminatesWitness ==
    /\ op = "pass" /\ expr.fn = "parseArray" /\ expr.receiver.done
    /\ NestingDepth(text) = 3
    /\ expr.receiver.ps.err = NoError
    /\ expr.receiver.ps.pos = Len(text) + 1

====
